---- MODULE Spec2Model ----
(***************************************************************************)
(* A model of spotify_tidal_transfer.py: the text normalizer, the artist   *)
(* similarity scorer, the candidate matcher (search_tidal_track) and the   *)
(* transfer orchestrator (direct_transfer_songs / artists / albums /       *)
(* playlists / everything) of class SpotifyTidalTransfer.                  *)
(*                                                                         *)
(* A Python str is a sequence of one-character strings; None is the        *)
(* distinguished value None below.  A similarity is an integer in units of *)
(* 1/600; a track score is twice the exact sum in units of 1/6000, plus    *)
(* the direction (-1, 0, 1) in which the IEEE-754 double sum the code      *)
(* computes is off that exact sum, so that scores compare as the doubles.  *)
(***************************************************************************)
EXTENDS Integers, Sequences, FiniteSets, TLC

(***************************************************************************)
(* Python values                                                           *)
(***************************************************************************)
None == <<"None">>

\* a variant of the truthiness test under which every string counts as given
AlwaysTruthy(s) == TRUE

\* Python truthiness of an Optional[str]: None and "" are falsy.
Truthy(s) == s # None /\ s # <<>>

UpperCase == <<"A","B","C","D","E","F","G","H","I","J","K","L","M",
               "N","O","P","Q","R","S","T","U","V","W","X","Y","Z">>

LowerCase == <<"a","b","c","d","e","f","g","h","i","j","k","l","m",
               "n","o","p","q","r","s","t","u","v","w","x","y","z">>

Digits == {"0","1","2","3","4","5","6","7","8","9"}

Range(f) == {f[i] : i \in DOMAIN f}

UpperSet == Range(UpperCase)

\* str.lower() on the upper-case letters
LowerOf ==
    [c \in UpperSet |-> LowerCase[CHOOSE i \in DOMAIN UpperCase : UpperCase[i] = c]]

\* str.lower() on one character
LowerChar(c) == IF c \in UpperSet THEN LowerOf[c] ELSE c

\* str.lower()
Lower(s) == [i \in DOMAIN s |-> LowerChar(s[i])]

\* the characters of the regular expression class \w
WordChars == UpperSet \cup Range(LowerCase) \cup Digits \cup {"_"}

IsWordChar(c) == c \in WordChars

\* the characters str.isspace() holds of
SpaceChars == {" ", "\t", "\n", "\r"}

IsSpace(c) == c \in SpaceChars

RECURSIVE LStrip(_)
LStrip(s) == IF s # <<>> /\ IsSpace(Head(s)) THEN LStrip(Tail(s)) ELSE s

RECURSIVE RStrip(_)
RStrip(s) ==
    IF s # <<>> /\ IsSpace(s[Len(s)]) THEN RStrip(SubSeq(s, 1, Len(s) - 1)) ELSE s

\* a variant of str.strip() that keeps the whitespace
NoStrip(s) == s

\* str.strip()
Strip(s) == RStrip(LStrip(s))

\* sub occurs in s at (1-based) position i
OccursAt(s, sub, i) ==
    /\ i >= 1
    /\ i + Len(sub) - 1 <= Len(s)
    /\ SubSeq(s, i, i + Len(sub) - 1) = sub

\* the Python expression  sub in s
Contains(s, sub) == \E i \in 1..(Len(s) + 1) : OccursAt(s, sub, i)

\* s.split(sep)[0] for a separator that occurs in s
BeforeFirst(s, sep) ==
    LET i == CHOOSE k \in 1..(Len(s) + 1) :
                 /\ OccursAt(s, sep, k)
                 /\ \A j \in 1..(k - 1) : ~OccursAt(s, sep, j)
    IN  SubSeq(s, 1, i - 1)

\* s.split(): the maximal runs of non-whitespace characters, in order
RECURSIVE SplitFrom(_, _, _)
SplitFrom(s, i, cur) ==
    IF i > Len(s)
    THEN IF cur = <<>> THEN <<>> ELSE <<cur>>
    ELSE IF IsSpace(s[i])
         THEN IF cur = <<>>
              THEN SplitFrom(s, i + 1, <<>>)
              ELSE <<cur>> \o SplitFrom(s, i + 1, <<>>)
         ELSE SplitFrom(s, i + 1, Append(cur, s[i]))

Split(s) == SplitFrom(s, 1, <<>>)

\* ' '.join(words)
RECURSIVE JoinSpace(_)
JoinSpace(words) ==
    IF words = <<>> THEN <<>>
    ELSE IF Len(words) = 1 THEN words[1]
    ELSE words[1] \o <<" ">> \o JoinSpace(Tail(words))

\* ', '.join(names)
RECURSIVE JoinComma(_)
JoinComma(names) ==
    IF names = <<>> THEN <<>>
    ELSE IF Len(names) = 1 THEN names[1]
    ELSE names[1] \o <<",", " ">> \o JoinComma(Tail(names))

(***************************************************************************)
(* Text normalizer                                                         *)
(***************************************************************************)
\* re.sub(open [^close]* close, '', text) scanning from position i: a span
\* starts at the leftmost open that has a close after it and ends at the
\* first close after it.
RECURSIVE RemoveSpansFrom(_, _, _, _)
RemoveSpansFrom(text, open, close, i) ==
    IF i > Len(text) THEN <<>>
    ELSE IF text[i] = open /\ \E j \in (i + 1)..Len(text) : text[j] = close
         THEN LET j == CHOOSE k \in (i + 1)..Len(text) :
                           /\ text[k] = close
                           /\ \A l \in (i + 1)..(k - 1) : text[l] # close
              IN  RemoveSpansFrom(text, open, close, j + 1)
         ELSE <<text[i]>> \o RemoveSpansFrom(text, open, close, i + 1)

RemoveSpans(text, open, close) == RemoveSpansFrom(text, open, close, 1)

\* the regular expression \b between positions i-1 and i of text
WordBoundary(text, i) ==
    LET before == i - 1 >= 1 /\ i - 1 <= Len(text) /\ IsWordChar(text[i - 1])
        after  == i >= 1 /\ i <= Len(text) /\ IsWordChar(text[i])
    IN  before # after

\* \b word \b matches text at position i, ignoring case
NoiseMatchAt(text, word, i) ==
    /\ i + Len(word) - 1 <= Len(text)
    /\ \A j \in 1..Len(word) : LowerChar(text[i + j - 1]) = LowerChar(word[j])
    /\ WordBoundary(text, i)
    /\ WordBoundary(text, i + Len(word))

\* re.sub(r'\b' + re.escape(word) + r'\b', '', text, flags=re.IGNORECASE)
RECURSIVE RemoveNoiseFrom(_, _, _)
RemoveNoiseFrom(text, word, i) ==
    IF i > Len(text) THEN <<>>
    ELSE IF NoiseMatchAt(text, word, i)
         THEN RemoveNoiseFrom(text, word, i + Len(word))
         ELSE <<text[i]>> \o RemoveNoiseFrom(text, word, i + 1)

noise_words ==
    << <<"f","e","a","t",".">>,
       <<"f","t",".">>,
       <<"f","e","a","t","u","r","i","n","g">>,
       <<"w","i","t","h">>,
       <<"v","s",".">>,
       <<"v","s">>,
       <<"&">> >>

\* the loop  for word in noise_words: text = re.sub(...)
RECURSIVE RemoveNoiseWords(_, _)
RemoveNoiseWords(text, k) ==
    IF k > Len(noise_words) THEN text
    ELSE RemoveNoiseWords(RemoveNoiseFrom(text, noise_words[k], 1), k + 1)

_normalize_search_text(text) ==
    IF ~Truthy(text) THEN <<>>
    ELSE LET t1 == RemoveSpans(text, "(", ")")
             t2 == RemoveSpans(t1, "[", "]")
             t3 == RemoveNoiseWords(t2, 1)
         IN  Strip(JoinSpace(Split(t3)))

\* a variant of the separators that tries '&' first
separatorsAmpersandFirst ==
    << <<"&">>, <<",">>, <<";">>,
       <<" ","a","n","d"," ">>, <<" ","x"," ">>, <<" ","X"," ">> >>

separators ==
    << <<",">>, <<";">>, <<"&">>,
       <<" ","a","n","d"," ">>, <<" ","x"," ">>, <<" ","X"," ">> >>

RECURSIVE PrimaryFrom(_, _)
PrimaryFrom(artist_str, k) ==
    IF k > Len(separators) THEN Strip(artist_str)
    ELSE IF Contains(artist_str, separators[k])
         THEN Strip(BeforeFirst(artist_str, separators[k]))
         ELSE PrimaryFrom(artist_str, k + 1)

_extract_primary_artist(artist_str) ==
    IF ~Truthy(artist_str) THEN <<>> ELSE PrimaryFrom(artist_str, 1)

(***************************************************************************)
(* Artist similarity scorer, in units of 1/600                             *)
(***************************************************************************)
SimUnit == 600

Max(a, b) == IF a >= b THEN a ELSE b

\* a variant of the scorer that gives 0.9 only when the second name holds
\* the first
SimilarityFirstInSecond(artist1, artist2) ==
    IF ~Truthy(artist1) \/ ~Truthy(artist2) THEN 0
    ELSE LET a1 == Strip(Lower(artist1))
             a2 == Strip(Lower(artist2))
             primary1 == _extract_primary_artist(a1)
             primary2 == _extract_primary_artist(a2)
             words1 == Range(Split(a1))
             words2 == Range(Split(a2))
         IN  IF a1 = a2 THEN SimUnit
             ELSE IF Contains(a2, a1) THEN (9 * SimUnit) \div 10
             ELSE IF primary1 = primary2 THEN (85 * SimUnit) \div 100
             ELSE IF words1 # {} /\ words2 # {}
                  THEN (Cardinality(words1 \cap words2) * ((7 * SimUnit) \div 10))
                           \div Max(Cardinality(words1), Cardinality(words2))
                  ELSE 0

_calculate_artist_similarity(artist1, artist2) ==
    IF ~Truthy(artist1) \/ ~Truthy(artist2) THEN 0
    ELSE LET a1 == Strip(Lower(artist1))
             a2 == Strip(Lower(artist2))
             primary1 == _extract_primary_artist(a1)
             primary2 == _extract_primary_artist(a2)
             words1 == Range(Split(a1))
             words2 == Range(Split(a2))
         IN  IF a1 = a2 THEN SimUnit
             ELSE IF Contains(a2, a1) \/ Contains(a1, a2) THEN (9 * SimUnit) \div 10
             ELSE IF primary1 = primary2 THEN (85 * SimUnit) \div 100
             ELSE IF words1 # {} /\ words2 # {}
                  THEN (Cardinality(words1 \cap words2) * ((7 * SimUnit) \div 10))
                           \div Max(Cardinality(words1), Cardinality(words2))
                  ELSE 0

(***************************************************************************)
(* Track scores.  The code sums doubles:                                   *)
(*   score = ((artist_sim * 0.6 + album_sim * 0.2) + duration) + name      *)
(* A score is 2 * (the exact sum in units of 1/6000) + r, where r is -1,   *)
(* 0 or +1 as the double sum lies below, at or above the double nearest to *)
(* the exact sum, so that scores and the literals 0.5, 0.8, 1.0 compare as *)
(* the doubles do.  The two sets list, by <<artist_sim, album_sim,         *)
(* duration bonus, name bonus>>, the sums that IEEE-754 round-to-nearest   *)
(* leaves off the nearest double, for similarities of names of at most     *)
(* three words.                                                            *)
(***************************************************************************)
RoundsDown ==
    {
      <<0,140,0,0>>, <<0,210,0,0>>, <<0,210,0,600>>, <<0,210,600,0>>,
      <<0,280,0,0>>, <<0,420,0,0>>, <<0,420,600,600>>, <<0,420,1200,0>>,
      <<0,420,1200,600>>, <<140,0,0,0>>, <<140,0,600,600>>, <<140,0,1200,0>>,
      <<140,0,1200,600>>, <<140,140,0,0>>, <<140,140,0,600>>, <<140,140,600,0>>,
      <<140,140,600,600>>, <<140,210,0,0>>, <<140,210,0,600>>, <<140,210,600,0>>,
      <<140,210,600,600>>, <<140,280,0,0>>, <<140,420,0,0>>, <<140,600,0,0>>,
      <<140,600,0,600>>, <<140,600,600,0>>, <<140,600,600,600>>, <<210,210,0,0>>,
      <<210,420,0,600>>, <<210,420,600,0>>, <<210,420,600,600>>, <<280,0,0,0>>,
      <<280,140,0,600>>, <<280,140,600,0>>, <<280,140,1200,600>>, <<280,210,0,600>>,
      <<280,210,600,0>>, <<280,210,600,600>>, <<280,280,0,0>>, <<280,280,0,600>>,
      <<280,280,600,0>>, <<280,280,600,600>>, <<280,280,1200,0>>, <<280,280,1200,600>>,
      <<280,420,0,0>>, <<280,420,0,600>>, <<280,420,600,0>>, <<280,420,600,600>>,
      <<280,420,1200,0>>, <<280,420,1200,600>>, <<280,510,0,0>>, <<280,510,0,600>>,
      <<280,510,600,0>>, <<280,510,600,600>>, <<280,510,1200,0>>, <<280,510,1200,600>>,
      <<280,540,0,0>>, <<280,540,0,600>>, <<280,540,600,0>>, <<280,540,600,600>>,
      <<280,540,1200,0>>, <<280,540,1200,600>>, <<280,600,600,600>>, <<280,600,1200,0>>,
      <<280,600,1200,600>>, <<420,210,1200,600>>, <<420,280,600,600>>, <<420,420,0,0>>,
      <<420,420,0,600>>, <<420,420,600,0>>, <<420,420,600,600>>, <<420,510,600,600>>,
      <<420,540,600,600>>, <<510,0,1200,600>>, <<510,140,600,600>>, <<510,140,1200,0>>,
      <<510,140,1200,600>>, <<510,210,0,600>>, <<510,210,600,0>>, <<510,210,600,600>>,
      <<510,280,0,0>>, <<510,280,0,600>>, <<510,280,600,0>>, <<510,280,600,600>>,
      <<510,280,1200,0>>, <<510,280,1200,600>>, <<510,600,0,600>>, <<510,600,600,0>>,
      <<510,600,600,600>>, <<510,600,1200,0>>, <<540,140,1200,600>>, <<540,210,600,600>>,
      <<540,280,600,600>>, <<540,280,1200,0>>, <<540,280,1200,600>>, <<600,0,600,600>>,
      <<600,140,0,600>>, <<600,140,600,0>>, <<600,140,600,600>>, <<600,210,0,0>>,
      <<600,210,0,600>>, <<600,210,600,0>>, <<600,210,600,600>>, <<600,210,1200,0>>,
      <<600,210,1200,600>>
    }

RoundsUp ==
    {
      <<0,0,1200,600>>, <<0,540,0,0>>, <<0,600,0,600>>, <<0,600,600,0>>,
      <<140,510,0,600>>, <<140,510,600,0>>, <<140,540,0,600>>, <<140,540,600,0>>,
      <<210,0,600,600>>, <<210,0,1200,0>>, <<210,280,1200,0>>, <<210,510,1200,0>>,
      <<210,540,1200,0>>, <<210,540,1200,600>>, <<210,600,0,0>>, <<210,600,1200,0>>,
      <<210,600,1200,600>>, <<420,140,1200,0>>, <<420,600,1200,0>>, <<510,420,1200,0>>,
      <<510,420,1200,600>>, <<510,510,1200,0>>, <<510,510,1200,600>>, <<510,540,0,0>>,
      <<510,540,1200,0>>, <<510,540,1200,600>>, <<540,420,1200,0>>, <<540,420,1200,600>>,
      <<540,510,0,0>>, <<540,510,1200,0>>, <<540,510,1200,600>>, <<540,540,0,0>>,
      <<540,540,0,600>>, <<540,540,600,0>>, <<540,540,1200,0>>, <<540,540,1200,600>>
    }

Rounding(a, b, d, n) ==
    IF <<a, b, d, n>> \in RoundsDown THEN -1
    ELSE IF <<a, b, d, n>> \in RoundsUp THEN 1
    ELSE 0

\* the double literal x/10 on the score scale
Tenths(x) == 2 * (x * SimUnit)

\* a similarity on the score scale (artist and album categories)
SimTenths(x) == (x * SimUnit) \div 10

(***************************************************************************)
(* Destination catalog entities, as the code reads them                    *)
(***************************************************************************)
\* best_match = None
NoTrack == [id |-> 0, name |-> None, artist |-> None, album |-> None, duration |-> 0]

\* lines 336-339: artist similarity against the original artist string
ArtistPart(artist_name, track) ==
    LET track_artist == IF track.artist # None THEN track.artist ELSE <<>>
    IN  _calculate_artist_similarity(artist_name, track_artist)

\* lines 341-344: album similarity, when both sides have an album
AlbumPart(album_name, track) ==
    IF Truthy(album_name) /\ track.album # None
    THEN _calculate_artist_similarity(album_name, track.album)
    ELSE 0

Abs(x) == IF x < 0 THEN -x ELSE x

\* lines 346-354: duration bonus, in units of 1/6000
DurationPart(duration_ms, track) ==
    IF duration_ms # 0 /\ track.duration # 0
    THEN LET duration_diff == Abs(duration_ms - track.duration * 1000)
         IN  IF duration_diff < 5000 THEN 2 * SimUnit
             ELSE IF duration_diff < 15000 THEN SimUnit
             ELSE 0
    ELSE SimUnit

\* lines 356-359: name containment bonus, in units of 1/6000
NamePart(track_clean, track) ==
    LET track_name_clean == _normalize_search_text(track.name)
    IN  IF \/ Contains(Lower(track_name_clean), Lower(track_clean))
           \/ Contains(Lower(track_clean), Lower(track_name_clean))
        THEN SimUnit
        ELSE 0

\* lines 334-359: the score of one candidate
ScoreTrack(track_clean, artist_name, album_name, duration_ms, track) ==
    LET a == ArtistPart(artist_name, track)
        b == AlbumPart(album_name, track)
        d == DurationPart(duration_ms, track)
        n == NamePart(track_clean, track)
    IN  2 * (6 * a + 2 * b + d + n) + Rounding(a, b, d, n)

\* lines 312-318: the fallback queries; a quoted phrase is <<"\"">> \o s \o <<"\"">>
Quoted(s) == <<"\"">> \o s \o <<"\"">>

\* a variant of the matcher that has no quoted query
BuildQueriesUnquoted(track_clean, artist_clean, primary_artist) ==
    (IF primary_artist # <<>>
     THEN << track_clean \o <<" ">> \o primary_artist >>
     ELSE <<>>)
    \o
    (IF artist_clean # <<>> /\ artist_clean # primary_artist
     THEN << track_clean \o <<" ">> \o artist_clean >>
     ELSE <<>>)
    \o
    << track_clean >>

\* a variant of the matcher that tries the name alone first
BuildQueriesNameFirst(track_clean, artist_clean, primary_artist) ==
    << track_clean >>
    \o
    (IF primary_artist # <<>>
     THEN << Quoted(track_clean) \o <<" ">> \o Quoted(primary_artist),
             track_clean \o <<" ">> \o primary_artist >>
     ELSE <<>>)
    \o
    (IF artist_clean # <<>> /\ artist_clean # primary_artist
     THEN << track_clean \o <<" ">> \o artist_clean >>
     ELSE <<>>)

BuildQueries(track_clean, artist_clean, primary_artist) ==
    (IF primary_artist # <<>>
     THEN << Quoted(track_clean) \o <<" ">> \o Quoted(primary_artist) >>
     ELSE <<>>)
    \o
    (IF primary_artist # <<>>
     THEN << track_clean \o <<" ">> \o primary_artist >>
     ELSE <<>>)
    \o
    (IF artist_clean # <<>> /\ artist_clean # primary_artist
     THEN << track_clean \o <<" ">> \o artist_clean >>
     ELSE <<>>)
    \o
    << track_clean >>

\* a variant of the matcher that lets a later candidate of the same score win
RECURSIVE ScoreTracksLast(_, _, _, _)
ScoreTracksLast(mt, tracks, query, k) ==
    IF k > Len(tracks) THEN mt
    ELSE LET score == ScoreTrack(mt.track_clean, mt.artist_name, mt.album_name,
                                 mt.duration_ms, tracks[k])
             upd == IF score >= mt.best_score
                    THEN [mt EXCEPT !.best_score = score,
                                    !.best_match = tracks[k],
                                    !.query_used = query]
                    ELSE mt
         IN  ScoreTracksLast(upd, tracks, query, k + 1)

\* lines 333-365: score every track of one result list, keeping the running best
RECURSIVE ScoreTracks(_, _, _, _)
ScoreTracks(mt, tracks, query, k) ==
    IF k > Len(tracks) THEN mt
    ELSE LET score == ScoreTrack(mt.track_clean, mt.artist_name, mt.album_name,
                                 mt.duration_ms, tracks[k])
             upd == IF score > mt.best_score
                    THEN [mt EXCEPT !.best_score = score,
                                    !.best_match = tracks[k],
                                    !.query_used = query]
                    ELSE mt
         IN  ScoreTracks(upd, tracks, query, k + 1)

\* a variant of the matcher that stops the search at 0.9 only
HighConfidenceAt9(best_score) == best_score >= Tenths(9)

\* line 368: a high-confidence match stops the search
HighConfidence(best_score) == best_score >= Tenths(8)

\* a variant of the matcher that returns the best candidate whatever its score
AcceptedAnyScore(best_match, best_score) == best_match # NoTrack

\* lines 379-386: the value search_tidal_track returns
Accepted(best_match, best_score) == best_match # NoTrack /\ best_score >= Tenths(5)

(***************************************************************************)
(* Bounds of the model                                                     *)
(***************************************************************************)
\* menu selections that start a transfer, per run of the program
MaxRuns == 2

\* candidates one search call returns (the code asks for at most 10, or 5)
MaxResults == 2

\* tracks of the long playlist of SpecBatch
MaxTracks == 125

\* calls that raise in one run of SpecRaise
MaxFaults == 2

\* length of the artist names SpecSimilarity draws from its alphabet
MaxNameLen == 3

\* length of the track names SpecNormalize draws from its alphabet
MaxLen == 3

\* liked songs of the long accounts of SpecPaging: two full pages and one more
MaxSongs == 101

\* playlists of the long accounts of SpecPaging: one more than a page
MaxPlaylists == 51

(***************************************************************************)
(* Program constants                                                       *)
(***************************************************************************)
\* page size of liked songs, followed artists and saved albums
limit == 50

\* page size of playlist tracks
playlist_limit == 100

\* ids per add call to a destination playlist
batch_size == 50

(***************************************************************************)
(* Names used by the catalogs of the model                                 *)
(***************************************************************************)
sHello == <<"H","e","l","l","o">>

sHelloLive == <<"H","e","l","l","o"," ","(","L","i","v","e",")">>

sLiveOnly == <<"(","L","i","v","e",")">>

sBye == <<"B","y","e">>

sAdele == <<"A","d","e","l","e">>

sBob == <<"B","o","b">>

sAdeleBob == <<"A","d","e","l","e"," ","B","o","b">>

sBobAdele == <<"B","o","b"," ","A","d","e","l","e">>

sCyBob == <<"C","y"," ","B","o","b">>

sZed == <<"Z","e","d">>

s25 == <<"2","5">>

s21 == <<"2","1">>

sMix == <<"M","i","x">>

sGym == <<"G","y","m">>

(***************************************************************************)
(* Source catalog (Spotify) items                                          *)
(***************************************************************************)
\* an item of saved tracks or of playlist tracks: item['track'] of type 'track'
SourceTrack(id, name, artists, album, duration_ms) ==
    [kind |-> "track", id |-> id, name |-> name, artists |-> artists,
     album |-> album, duration_ms |-> duration_ms]

\* an item whose track is of another type (a podcast episode)
EpisodeItem == [SourceTrack(90, sBye, <<sBob>>, s21, 1000) EXCEPT !.kind = "episode"]

\* an item whose track is None
NullItem == [SourceTrack(0, <<>>, <<>>, <<>>, 0) EXCEPT !.kind = "none"]

trkHello == SourceTrack(1, sHello, <<sAdele>>, s25, 295000)

trkDuet == SourceTrack(2, sHello, <<sAdele, sBob>>, s25, 0)

trkLiveOnly == SourceTrack(3, sLiveOnly, <<sAdele>>, s25, 295000)

\* the k-th track of the long playlist: the same song under its own id
BatchTrack(k) == SourceTrack(k, sHello, <<sAdele>>, s25, 295000)

SourceArtist(id, name) == [id |-> id, name |-> name]

SourceAlbum(name, artists) == [name |-> name, artists |-> artists]

\* a playlist of current_user_playlists; kind "none" is a None entry
SourcePlaylist(id, name, tracks) ==
    [kind |-> "playlist", id |-> id, name |-> name, tracks |-> tracks]

NullPlaylist == [SourcePlaylist(0, <<>>, <<>>) EXCEPT !.kind = "none"]

(***************************************************************************)
(* Destination catalog (TIDAL) entities                                    *)
(***************************************************************************)
TidalTrack(id, name, artist, album, duration) ==
    [id |-> id, name |-> name, artist |-> artist, album |-> album, duration |-> duration]

TidalArtist(id, name) == [id |-> id, name |-> name]

\* best_match = None in the artist loop
NoArtist == TidalArtist(0, None)

TidalAlbum(id, name, artist) == [id |-> id, name |-> name, artist |-> artist]

\* best_match = None in the album loop
NoAlbum == TidalAlbum(0, None, None)

TidalPlaylist(name, tracks) == [name |-> name, tracks |-> tracks]

\* the candidate a search stub returns for a source track: the same name,
\* artist and album, the duration in seconds, under the source track's id
ExactCandidate(item) ==
    TidalTrack(item.id, item.name, JoinComma(item.artists), item.album,
               item.duration_ms \div 1000)

cLive == TidalTrack(11, sHelloLive, sAdele, None, 0)

cCover == TidalTrack(12, sHello, sBob, s21, 400)

cNear == TidalTrack(13, sHello, sAdele, s25, 298)

cFar == TidalTrack(14, sBye, sAdele, s25, 305)

cDuet == TidalTrack(15, sHello, sAdeleBob, s21, 295)

cAnon == TidalTrack(16, sHello, None, s25, 0)

\* another release of the live version
cLiveAgain == TidalTrack(17, sHelloLive, sAdele, None, 0)

\* the tracks a search may return, by search stub
TrackPool(st) ==
    IF st = "narrow" THEN {ExactCandidate(trkHello), cLive, cCover}
    ELSE IF st = "wide"
         THEN {ExactCandidate(trkHello), cLive, cCover, cNear, cFar, cDuet, cAnon}
    ELSE {}

ArtistPool == {TidalArtist(21, sAdele), TidalArtist(22, sAdeleBob), TidalArtist(23, sCyBob)}

AlbumPool == {TidalAlbum(31, s25, sAdele), TidalAlbum(32, s25, None), TidalAlbum(33, s21, sAdele)}

\* the sequences over S of length at most n
SeqsUpTo(S, n) == UNION {[1..k -> S] : k \in 0..n}

\* the 'tracks' lists tidal.search may return for a source track
TrackResults(st, item) ==
    IF st = "exact" THEN {<<ExactCandidate(item)>>}
    ELSE IF st = "empty" THEN {<<>>}
    ELSE SeqsUpTo(TrackPool(st), MaxResults)

\* the 'artists' lists tidal.search may return for a followed artist
ArtistResults(st, artist) ==
    IF st = "exact" THEN {<<TidalArtist(artist.id, artist.name)>>}
    ELSE IF st = "empty" THEN {<<>>}
    ELSE SeqsUpTo(ArtistPool, MaxResults)

\* the 'albums' lists tidal.search may return for a saved album
AlbumResults(st, album) ==
    IF st = "exact" THEN {<<TidalAlbum(30, album.name, JoinComma(album.artists))>>}
    ELSE IF st = "empty" THEN {<<>>}
    ELSE SeqsUpTo(AlbumPool, MaxResults)

(***************************************************************************)
(* Libraries                                                               *)
(***************************************************************************)
Library(songs, artists, albums, playlists, tidal_pls) ==
    [songs |-> songs, artists |-> artists, albums |-> albums,
     playlists |-> playlists, tidal_playlists |-> tidal_pls]

\* an account with liked songs only
SongsLibrary == Library(<<trkHello, EpisodeItem, trkLiveOnly>>, <<>>, <<>>, <<>>, <<>>)

\* an account with followed artists only
ArtistsLibrary ==
    Library(<<>>, <<SourceArtist(42, sBobAdele), SourceArtist(43, sZed)>>, <<>>, <<>>, <<>>)

\* an account with saved albums only
AlbumsLibrary ==
    Library(<<>>, <<>>,
            <<SourceAlbum(s25, <<sAdele>>), SourceAlbum(sZed, <<sZed, sBob>>)>>,
            <<>>, <<>>)

\* an account with playlists only; the destination holds one of them
\* already, twice, and a playlist whose name differs from the other's in
\* case only
PlaylistsLibrary ==
    Library(<<>>, <<>>, <<>>,
            <<NullPlaylist,
              SourcePlaylist(51, sMix, <<trkHello, trkLiveOnly>>),
              SourcePlaylist(52, sGym, <<NullItem>>)>>,
            <<TidalPlaylist(Lower(sMix), <<>>), TidalPlaylist(sGym, <<7>>),
              TidalPlaylist(sGym, <<>>)>>)

\* an account with something in every category
FullLibrary ==
    Library(<<trkHello>>,
            <<SourceArtist(41, sAdele)>>,
            <<SourceAlbum(s25, <<sAdele>>)>>,
            <<SourcePlaylist(51, sMix, <<trkDuet, trkLiveOnly>>)>>,
            <<TidalPlaylist(sGym, <<>>), TidalPlaylist(sMix, <<7>>)>>)

Scenario(lib, st, f) == [lib |-> lib, stub |-> st, faults |-> f]

\* the accounts of the default specification, each with the search stub and
\* the number of calls that may raise (below 0: any number)
Scenarios ==
    { Scenario(SongsLibrary, "narrow", -1),
      Scenario(ArtistsLibrary, "narrow", -1),
      Scenario(AlbumsLibrary, "narrow", -1),
      Scenario(PlaylistsLibrary, "narrow", -1),
      Scenario(FullLibrary, "exact", 1),
      Scenario(FullLibrary, "empty", 0) }

\* the source tracks the matcher is tried on
MatchInputs ==
    { SourceTrack(1, name, artists, album, duration_ms) :
        name \in {<<>>, sLiveOnly, sHello, sHelloLive},
        artists \in {<<>>, <<sAdele>>, <<sAdele, sBob>>, <<sBob>>},
        album \in {<<>>, s25},
        duration_ms \in {0, 295000} }

MatchLibraries == { Library(<<t>>, <<>>, <<>>, <<>>, <<>>) : t \in MatchInputs }

\* a playlist of n tracks that all have an exact candidate
BatchLibrary(n) ==
    Library(<<>>, <<>>, <<>>,
            <<SourcePlaylist(53, sMix, [k \in 1..n |-> BatchTrack(k)])>>, <<>>)

\* the name of the k-th playlist of a long account: "Mix" and k marks
PlaylistName(k) == sMix \o [i \in 1..k |-> "!"]

\* an account of s liked songs and p playlists, all of different names; the
\* first playlist holds one track, the others none, and every track has an
\* exact candidate
PagingLibrary(s, p) ==
    Library([k \in 1..s |-> BatchTrack(k)], <<>>, <<>>,
            [k \in 1..p |->
                SourcePlaylist(100 + k, PlaylistName(k),
                               IF k = 1 THEN <<BatchTrack(1)>> ELSE <<>>)],
            <<>>)

\* the characters of the track names of SpecNormalize: the letters of the
\* noise word 'vs', the noise word '&', the dot, the brackets and the space
TextAlphabet == {"v", "s", "&", ".", " ", "(", ")", "[", "]"}

sSongLiveRemasterFeatBob == <<"S","o","n","g"," ","(","L","i","v","e",")"," ","[","R","e","m","a","s","t","e","r","]"," ","f","e","a","t","."," ","B","o","b">>

sAAndB == <<"A"," ","&"," ","B">>

\* the track names the normalizer is tried on
NormalizeInputs ==
    SeqsUpTo(TextAlphabet, MaxLen) \cup {sSongLiveRemasterFeatBob, sAAndB}

NormalizeLibraries ==
    { Library(<<SourceTrack(1, name, <<sAdele>>, s25, 0)>>, <<>>, <<>>, <<>>, <<>>) :
        name \in NormalizeInputs }

\* the characters of the artist names of SpecSimilarity: two letters, one
\* of them in both cases, and the space
NameAlphabet == {"a", "b", "B", " "}

sAbc == <<"a","b","c">>

sXyz == <<"x","y","z">>

sACommaB == <<"a",","," ","b">>

sASemicolonC == <<"a",";","c">>

\* the artist names the similarity scorer is tried on
SimilarityInputs ==
    SeqsUpTo(NameAlphabet, MaxNameLen) \cup {sAbc, sXyz, sACommaB, sASemicolonC}

\* the characters of the artist strings of SpecQueries: one letter, the
\* separators ',' and '&' and the space
ArtistAlphabet == {"a", ",", "&", " "}

sSolo == <<"S","o","l","o">>

sABC == <<"A",","," ","B"," ","&"," ","C">>

sAAmpBCommaC == <<"a"," ","&"," ","b",","," ","c">>

sASemiBAmpC == <<"a"," ","&"," ","b",";","c">>

sAWordAndB == <<"a"," ","a","n","d"," ","b">>

sAxB == <<"a"," ","x"," ","b">>

sAXB == <<"a"," ","X"," ","b">>

sAXBxC == <<"a"," ","X"," ","b"," ","x"," ","c">>

sAxBAndC == <<"a"," ","x"," ","b"," ","a","n","d"," ","c">>

sSandy == <<"S","a","n","d","y">>

\* the artist strings the matcher is tried on
ArtistInputs ==
    SeqsUpTo(ArtistAlphabet, MaxLen)
        \cup {sSolo, sABC, sAAmpBCommaC, sASemiBAmpC, sAWordAndB, sAxB, sAXB, sAXBxC,
              sAxBAndC, sSandy}

\* one liked song by one artist, with a name or without
QueryLibraries ==
    { Library(<<SourceTrack(1, name, <<artist>>, s25, 0)>>, <<>>, <<>>, <<>>, <<>>) :
        name \in {<<>>, sHello}, artist \in ArtistInputs }

\* the candidates of the scripted searches: the cover (0.1), the live
\* version and another release of it (both just below 0.8) and the duet
\* (above 0.8, which ends the query loop)
ScriptPool == {cCover, cLive, cLiveAgain, cDuet}

\* an account of one liked song, for a destination whose i-th search call
\* returns the i-th list of script
ScriptLibrary(script) ==
    [songs |-> <<trkHello>>, artists |-> <<>>, albums |-> <<>>,
     playlists |-> <<>>, tidal_playlists |-> <<>>, tidal_tracks |-> script]

\* an account that follows one artist named x, for a destination whose
\* search returns one artist named y
SimilarityLibrary(x, y) ==
    [songs |-> <<>>, artists |-> <<SourceArtist(1, x)>>, albums |-> <<>>,
     playlists |-> <<>>, tidal_playlists |-> <<>>,
     tidal_artists |-> <<TidalArtist(2, y)>>]

\* results[offset : offset + n], the page a list endpoint returns
Page(list, offset, n) ==
    SubSeq(list, offset + 1, IF offset + n <= Len(list) THEN offset + n ELSE Len(list))

(***************************************************************************)
(* State                                                                   *)
(***************************************************************************)
VARIABLES
    spotify,          \* self.spotify is set
    tidal,            \* self.tidal is set
    transfer_stats,   \* self.transfer_stats
    failed_items,     \* self.failed_items
    library,          \* what the source catalog holds
    stub,             \* what the destination search returns
    faults,           \* how many more calls may raise; below 0, any number
    tidal_playlists,  \* the destination playlists, in order of creation
    writes,           \* the write calls issued to the destination, in order
    pc,               \* where the program is
    todo,             \* the category methods still to be called
    loc,              \* the local variables of the running category method
    m,                \* the local variables of search_tidal_track
    processed,        \* items the running item loop has handled
    runs              \* transfers started from the menu

vars == <<spotify, tidal, transfer_stats, failed_items, library, stub, faults,
          tidal_playlists, writes, pc, todo, loc, m, processed, runs>>

\* lines 48-54 and 931-937
ZeroStats ==
    [songs_imported |-> 0, artists_imported |-> 0, albums_imported |-> 0,
     playlists_created |-> 0, total_failed |-> 0]

\* lines 56-61 and 938-943
EmptyLedger == [songs |-> <<>>, artists |-> <<>>, albums |-> <<>>, playlist_tracks |-> <<>>]

\* the locals of a category method before it sets them
Loc0 ==
    [imported |-> 0, failed |-> 0, offset |-> 0, after |-> 0, items |-> <<>>,
     idx |-> 0, more |-> FALSE, best_match |-> NoArtist, best_score |-> 0,
     playlists |-> <<>>, pidx |-> 0, playlist_name |-> <<>>, tidal_playlist |-> 0,
     batch_ids |-> <<>>, playlists_created |-> 0, total_imported |-> 0,
     total_failed |-> 0]

\* the locals of search_tidal_track when no call is running
M0 ==
    [track_clean |-> <<>>, artist_clean |-> <<>>, primary_artist |-> <<>>,
     artist_name |-> <<>>, album_name |-> <<>>,
     duration_ms |-> 0, queries |-> <<>>, qi |-> 1, best_match |-> NoTrack,
     best_score |-> 0, query_used |-> None, calls |-> <<>>, done |-> TRUE]

InitWith(lib, st, f, connected, r) ==
    /\ spotify = connected
    /\ tidal = connected
    /\ transfer_stats = ZeroStats
    /\ failed_items = EmptyLedger
    /\ library = lib
    /\ stub = st
    /\ faults = f
    /\ tidal_playlists = lib.tidal_playlists
    /\ writes = <<>>
    /\ pc = "menu"
    /\ todo = <<>>
    /\ loc = Loc0
    /\ m = M0
    /\ processed = 0
    /\ runs = r

\* a new SpotifyTidalTransfer: no handle is connected
Init == \E sc \in Scenarios : InitWith(sc.lib, sc.stub, sc.faults, FALSE, 0)

\* the matcher on one liked song: both handles are connected and one
\* transfer is left to start
InitMatch == \E lib \in MatchLibraries : InitWith(lib, "wide", -1, TRUE, MaxRuns - 1)

\* one long playlist whose tracks all have an exact candidate: both handles
\* are connected and one transfer is left to start; at most one call raises,
\* and only for the lengths at which a full batch is flushed inside the item
\* loop
InitBatch ==
    \/ \E n \in 0..MaxTracks :
           InitWith(BatchLibrary(n), "exact", 0, TRUE, MaxRuns - 1)
    \/ \E n \in {batch_size, batch_size + 1} :
           InitWith(BatchLibrary(n), "exact", 1, TRUE, MaxRuns - 1)

\* a long account of liked songs or of playlists, whose destination holds no
\* playlist: both handles are connected, one transfer is left to start and
\* no call raises
InitPaging ==
    \/ \E s \in 0..MaxSongs : InitWith(PagingLibrary(s, 0), "exact", 0, TRUE, MaxRuns - 1)
    \/ \E p \in 1..MaxPlaylists : InitWith(PagingLibrary(0, p), "exact", 0, TRUE, MaxRuns - 1)

\* the normalizer on the name of one liked song: both handles are connected,
\* one transfer is left to start, the searches find nothing and no call raises
InitNormalize == \E lib \in NormalizeLibraries : InitWith(lib, "empty", 0, TRUE, MaxRuns - 1)

\* the scorer on one followed artist and one found artist: both handles are
\* connected, one transfer is left to start and no call raises
InitSimilarity ==
    \E x \in SimilarityInputs : \E y \in SimilarityInputs :
        InitWith(SimilarityLibrary(x, y), "catalog", 0, TRUE, MaxRuns - 1)

\* one liked song whose searches may return a candidate below the early
\* stop: both handles are connected, one transfer is left to start and one
\* or two calls raise
InitRaise ==
    \E f \in 1..MaxFaults :
        InitWith(Library(<<trkHello>>, <<>>, <<>>, <<>>, <<>>), "narrow", f, TRUE, MaxRuns - 1)

\* the matcher on one liked song, for every artist string: both handles are
\* connected, one transfer is left to start, the searches find nothing and
\* no call raises
InitQueries == \E lib \in QueryLibraries : InitWith(lib, "empty", 0, TRUE, MaxRuns - 1)

\* a variant of the guards that is content with one connected handle
ConnectedEither == spotify \/ tidal

\* lines 510, 595, 688, 791 and 926: both handles are connected
Connected == spotify /\ tidal

\* line 617-618: the 'artists' lists tidal.search may return; the stub
\* "catalog" returns the artists of the destination of the account
SearchArtists(artist) ==
    IF stub = "catalog" THEN {library.tidal_artists} ELSE ArtistResults(stub, artist)

\* an external call may raise
MayRaise == faults # 0

Spent == IF faults > 0 THEN faults - 1 ELSE faults

\* where a category method returns to; its locals end with it
ReturnTo(rest) == IF rest = <<>> THEN "menu" ELSE "call"

Write(op, ids, ok) == [op |-> op, ids |-> ids, ok |-> ok]

\* a variant of the except clauses that records the reason of a rejected match
NoErrorText(e) == <<"No match found on TIDAL">>

\* f'Error: {str(e)}'
ErrorReason(e) == <<"Error: ", e>>

(***************************************************************************)
(* search_tidal_track                                                      *)
(***************************************************************************)
\* a variant of the matcher that searches for an empty name as well
EmptyNameSearched(track_clean) == FALSE

\* lines 308-309: nothing is left of the track name
EmptyName(track_clean) == track_clean = <<>>

\* lines 303-322: the call, up to the first iteration of the query loop
MatchStart(item) ==
    LET artist_name == JoinComma(item.artists)
        track_clean == _normalize_search_text(item.name)
        artist_clean == _normalize_search_text(artist_name)
        primary_artist == _extract_primary_artist(artist_clean)
        queries == IF EmptyName(track_clean) THEN <<>>
                   ELSE BuildQueries(track_clean, artist_clean, primary_artist)
    IN  [track_clean |-> track_clean, artist_clean |-> artist_clean,
         primary_artist |-> primary_artist, artist_name |-> artist_name,
         album_name |-> item.album, duration_ms |-> item.duration_ms,
         queries |-> queries, qi |-> 1, best_match |-> NoTrack, best_score |-> 0,
         query_used |-> None, calls |-> <<>>, done |-> EmptyName(track_clean)]

\* a variant of the matcher that gives up at the first search call that raises
SearchRaisedEnds(mt) ==
    [mt EXCEPT !.calls = Append(@, mt.queries[mt.qi]),
               !.done = TRUE]

\* lines 324-376, one iteration whose search call raises
SearchRaised(mt) ==
    [mt EXCEPT !.calls = Append(@, mt.queries[mt.qi]),
               !.qi = @ + 1,
               !.done = mt.qi + 1 > Len(mt.queries)]

\* lines 324-372, one iteration whose search call returns tracks
SearchReturned(mt, tracks) ==
    LET query == mt.queries[mt.qi]
        scored == ScoreTracks(mt, tracks, query, 1)
    IN  [scored EXCEPT !.calls = Append(@, query),
                       !.qi = @ + 1,
                       !.done = \/ (tracks # <<>> /\ HighConfidence(scored.best_score))
                                \/ mt.qi + 1 > Len(mt.queries)]

\* the source item the running item loop is at
CurrentItem == loc.items[loc.idx]

\* lines 326-327: the 'tracks' lists tidal.search may return; the stub
\* "script" returns the lists of the destination of the account, one for
\* each search call
SearchTracks ==
    IF stub = "script" THEN {library.tidal_tracks[Len(m.calls) + 1]}
    ELSE TrackResults(stub, CurrentItem)

\* one iteration of the query loop of search_tidal_track
Search ==
    /\ pc \in {"songs_match", "pl_match"}
    /\ ~m.done
    /\ \/ /\ MayRaise
          /\ m' = SearchRaised(m)
          /\ faults' = Spent
       \/ /\ \E tracks \in SearchTracks : m' = SearchReturned(m, tracks)
          /\ UNCHANGED faults
    /\ UNCHANGED <<spotify, tidal, transfer_stats, failed_items, library, stub,
                   tidal_playlists, writes, pc, todo, loc, processed, runs>>

(***************************************************************************)
(* direct_transfer_songs                                                   *)
(***************************************************************************)
\* the FailureRecord of a liked song or of a playlist track
TrackFailure(item, reason) ==
    [name |-> item.name, artist |-> JoinComma(item.artists),
     album |-> item.album, reason |-> reason]

\* lines 505-520: the guard and the initial locals
SongsStart ==
    /\ pc = "call"
    /\ todo # <<>>
    /\ Head(todo) = "songs"
    /\ todo' = Tail(todo)
    /\ IF ~Connected
       THEN /\ pc' = ReturnTo(Tail(todo))
            /\ UNCHANGED <<loc, processed>>
       ELSE /\ pc' = "songs_fetch"
            /\ loc' = Loc0
            /\ processed' = 0
    /\ UNCHANGED <<spotify, tidal, transfer_stats, failed_items, library, stub,
                   faults, tidal_playlists, writes, m, runs>>

\* lines 572-573: the counters of the run are added to the statistics
SongsStats(l) ==
    [transfer_stats EXCEPT !.songs_imported = @ + l.imported,
                           !.total_failed = @ + l.failed]

\* lines 522-527 and 587-588: one page of liked songs is fetched
SongsFetch ==
    /\ pc = "songs_fetch"
    /\ \/ /\ MayRaise
          /\ faults' = Spent
          /\ pc' = ReturnTo(todo)
          /\ loc' = Loc0
          /\ m' = M0
          /\ processed' = 0
          /\ UNCHANGED transfer_stats
       \/ /\ UNCHANGED faults
          /\ LET items == Page(library.songs, loc.offset, limit)
             IN  IF items = <<>>
                 THEN /\ transfer_stats' = SongsStats(loc)
                      /\ pc' = ReturnTo(todo)
                      /\ loc' = Loc0
                      /\ m' = M0
                      /\ processed' = 0
                 ELSE /\ loc' = [loc EXCEPT !.items = items, !.idx = 1]
                      /\ pc' = "songs_item"
                      /\ UNCHANGED <<transfer_stats, m, processed>>
    /\ UNCHANGED <<spotify, tidal, failed_items, library, stub, tidal_playlists,
                   writes, todo, runs>>

\* lines 531-540: the next item of the page; only tracks are matched
SongsItem ==
    /\ pc = "songs_item"
    /\ loc.idx <= Len(loc.items)
    /\ IF CurrentItem.kind = "track"
       THEN /\ m' = MatchStart(CurrentItem)
            /\ pc' = "songs_match"
            /\ processed' = processed + 1
            /\ UNCHANGED loc
       ELSE /\ loc' = [loc EXCEPT !.idx = @ + 1]
            /\ UNCHANGED <<m, pc, processed>>
    /\ UNCHANGED <<spotify, tidal, transfer_stats, failed_items, library, stub,
                   faults, tidal_playlists, writes, todo, runs>>

\* lines 542-566: the match is written to the favourites or recorded as failed
SongsDecide ==
    /\ pc = "songs_match"
    /\ m.done
    /\ pc' = "songs_item"
    /\ IF Accepted(m.best_match, m.best_score)
       THEN \/ /\ writes' = Append(writes, Write("add_track", <<m.best_match.id>>, TRUE))
               /\ loc' = [loc EXCEPT !.imported = @ + 1, !.idx = @ + 1]
               /\ UNCHANGED <<failed_items, faults>>
            \/ /\ MayRaise
               /\ faults' = Spent
               /\ writes' = Append(writes, Write("add_track", <<m.best_match.id>>, FALSE))
               /\ loc' = [loc EXCEPT !.failed = @ + 1, !.idx = @ + 1]
               /\ failed_items' =
                      [failed_items EXCEPT !.songs =
                          Append(@, TrackFailure(CurrentItem, ErrorReason("add_track")))]
       ELSE /\ loc' = [loc EXCEPT !.failed = @ + 1, !.idx = @ + 1]
            /\ failed_items' =
                   [failed_items EXCEPT !.songs =
                       Append(@, TrackFailure(CurrentItem, <<"No match found on TIDAL">>))]
            /\ UNCHANGED <<writes, faults>>
    /\ UNCHANGED <<spotify, tidal, transfer_stats, library, stub, tidal_playlists,
                   todo, m, processed, runs>>

\* lines 568-573: the end of a page
SongsPageEnd ==
    /\ pc = "songs_item"
    /\ loc.idx > Len(loc.items)
    /\ IF Len(loc.items) < limit
       THEN /\ transfer_stats' = SongsStats(loc)
            /\ pc' = ReturnTo(todo)
            /\ loc' = Loc0
            /\ m' = M0
            /\ processed' = 0
       ELSE /\ loc' = [loc EXCEPT !.offset = @ + limit]
            /\ pc' = "songs_fetch"
            /\ UNCHANGED <<transfer_stats, m, processed>>
    /\ UNCHANGED <<spotify, tidal, failed_items, library, stub, faults,
                   tidal_playlists, writes, todo, runs>>

(***************************************************************************)
(* direct_transfer_artists                                                 *)
(***************************************************************************)
ArtistFailure(artist, reason) == [name |-> artist.name, reason |-> reason]

\* lines 590-604
ArtistsStart ==
    /\ pc = "call"
    /\ todo # <<>>
    /\ Head(todo) = "artists"
    /\ todo' = Tail(todo)
    /\ IF ~Connected
       THEN /\ pc' = ReturnTo(Tail(todo))
            /\ UNCHANGED <<loc, processed>>
       ELSE /\ pc' = "artists_fetch"
            /\ loc' = Loc0
            /\ processed' = 0
    /\ UNCHANGED <<spotify, tidal, transfer_stats, failed_items, library, stub,
                   faults, tidal_playlists, writes, m, runs>>

\* lines 665-666
ArtistsStats(l) ==
    [transfer_stats EXCEPT !.artists_imported = @ + l.imported,
                           !.total_failed = @ + l.failed]

\* the followed artists that come after the artist with id after (0 is None)
FollowedAfter(after) ==
    IF after = 0 THEN library.artists
    ELSE LET i == CHOOSE k \in 1..Len(library.artists) : library.artists[k].id = after
         IN  SubSeq(library.artists, i + 1, Len(library.artists))

\* lines 606-611 and 680-681
ArtistsFetch ==
    /\ pc = "artists_fetch"
    /\ \/ /\ MayRaise
          /\ faults' = Spent
          /\ pc' = ReturnTo(todo)
          /\ loc' = Loc0
          /\ m' = M0
          /\ processed' = 0
          /\ UNCHANGED transfer_stats
       \/ /\ UNCHANGED faults
          /\ LET artists == Page(FollowedAfter(loc.after), 0, limit)
             IN  IF artists = <<>>
                 THEN /\ transfer_stats' = ArtistsStats(loc)
                      /\ pc' = ReturnTo(todo)
                      /\ loc' = Loc0
                      /\ m' = M0
                      /\ processed' = 0
                 ELSE /\ loc' = [loc EXCEPT !.items = artists, !.idx = 1]
                      /\ pc' = "artists_item"
                      /\ UNCHANGED <<transfer_stats, m, processed>>
    /\ UNCHANGED <<spotify, tidal, failed_items, library, stub, tidal_playlists,
                   writes, todo, runs>>

\* lines 622-629: the best of the returned artists
RECURSIVE BestArtist(_, _, _, _, _)
BestArtist(name, tidal_artists, k, best_match, best_score) ==
    IF k > Len(tidal_artists) THEN [best_match |-> best_match, best_score |-> best_score]
    ELSE LET score == _calculate_artist_similarity(name, tidal_artists[k].name)
         IN  IF score > best_score
             THEN BestArtist(name, tidal_artists, k + 1, tidal_artists[k], score)
             ELSE BestArtist(name, tidal_artists, k + 1, best_match, best_score)

\* lines 615-629 and 644-659: the search for one followed artist
ArtistsItem ==
    /\ pc = "artists_item"
    /\ loc.idx <= Len(loc.items)
    /\ processed' = processed + 1
    /\ \/ /\ MayRaise
          /\ faults' = Spent
          /\ loc' = [loc EXCEPT !.failed = @ + 1, !.idx = @ + 1]
          /\ failed_items' =
                 [failed_items EXCEPT !.artists =
                     Append(@, ArtistFailure(CurrentItem, ErrorReason("search")))]
          /\ UNCHANGED pc
       \/ /\ UNCHANGED faults
          /\ \E tidal_artists \in SearchArtists(CurrentItem) :
                IF tidal_artists = <<>>
                THEN /\ loc' = [loc EXCEPT !.failed = @ + 1, !.idx = @ + 1]
                     /\ failed_items' =
                            [failed_items EXCEPT !.artists =
                                Append(@, ArtistFailure(CurrentItem, <<"Not found on TIDAL">>))]
                     /\ UNCHANGED pc
                ELSE LET best == BestArtist(CurrentItem.name, tidal_artists, 1, NoArtist, 0)
                     IN  /\ loc' = [loc EXCEPT !.best_match = best.best_match,
                                               !.best_score = best.best_score]
                         /\ pc' = "artists_decide"
                         /\ UNCHANGED failed_items
    /\ UNCHANGED <<spotify, tidal, transfer_stats, library, stub, tidal_playlists,
                   writes, todo, m, runs>>

\* a variant of the artist loop that follows the best artist whatever its score
ArtistAcceptedAnyScore(best_match, best_score) == best_match # NoArtist

\* line 631
ArtistAccepted(best_match, best_score) ==
    best_match # NoArtist /\ best_score >= SimTenths(7)

\* lines 631-643 and 652-659
ArtistsDecide ==
    /\ pc = "artists_decide"
    /\ pc' = "artists_item"
    /\ IF ArtistAccepted(loc.best_match, loc.best_score)
       THEN \/ /\ writes' = Append(writes, Write("add_artist", <<loc.best_match.id>>, TRUE))
               /\ loc' = [loc EXCEPT !.imported = @ + 1, !.idx = @ + 1]
               /\ UNCHANGED <<failed_items, faults>>
            \/ /\ MayRaise
               /\ faults' = Spent
               /\ writes' = Append(writes, Write("add_artist", <<loc.best_match.id>>, FALSE))
               /\ loc' = [loc EXCEPT !.failed = @ + 1, !.idx = @ + 1]
               /\ failed_items' =
                      [failed_items EXCEPT !.artists =
                          Append(@, ArtistFailure(CurrentItem, ErrorReason("add_artist")))]
       ELSE /\ loc' = [loc EXCEPT !.failed = @ + 1, !.idx = @ + 1]
            /\ failed_items' =
                   [failed_items EXCEPT !.artists =
                       Append(@, ArtistFailure(CurrentItem,
                           IF loc.best_match # NoArtist
                           THEN <<"No good match found">>
                           ELSE <<"No match found on TIDAL">>))]
            /\ UNCHANGED <<writes, faults>>
    /\ UNCHANGED <<spotify, tidal, transfer_stats, library, stub, tidal_playlists,
                   todo, m, processed, runs>>

\* lines 661-666
ArtistsPageEnd ==
    /\ pc = "artists_item"
    /\ loc.idx > Len(loc.items)
    /\ IF Len(loc.items) < limit
       THEN /\ transfer_stats' = ArtistsStats(loc)
            /\ pc' = ReturnTo(todo)
            /\ loc' = Loc0
            /\ m' = M0
            /\ processed' = 0
       ELSE /\ loc' = [loc EXCEPT !.after = loc.items[Len(loc.items)].id]
            /\ pc' = "artists_fetch"
            /\ UNCHANGED <<transfer_stats, m, processed>>
    /\ UNCHANGED <<spotify, tidal, failed_items, library, stub, faults,
                   tidal_playlists, writes, todo, runs>>

(***************************************************************************)
(* direct_transfer_albums                                                  *)
(***************************************************************************)
AlbumFailure(album, reason) ==
    [name |-> album.name, artist |-> JoinComma(album.artists), reason |-> reason]

\* lines 683-698
AlbumsStart ==
    /\ pc = "call"
    /\ todo # <<>>
    /\ Head(todo) = "albums"
    /\ todo' = Tail(todo)
    /\ IF ~Connected
       THEN /\ pc' = ReturnTo(Tail(todo))
            /\ UNCHANGED <<loc, processed>>
       ELSE /\ pc' = "albums_fetch"
            /\ loc' = [Loc0 EXCEPT !.best_match = NoAlbum]
            /\ processed' = 0
    /\ UNCHANGED <<spotify, tidal, transfer_stats, failed_items, library, stub,
                   faults, tidal_playlists, writes, m, runs>>

\* lines 768-769
AlbumsStats(l) ==
    [transfer_stats EXCEPT !.albums_imported = @ + l.imported,
                           !.total_failed = @ + l.failed]

\* lines 700-705 and 783-784
AlbumsFetch ==
    /\ pc = "albums_fetch"
    /\ \/ /\ MayRaise
          /\ faults' = Spent
          /\ pc' = ReturnTo(todo)
          /\ loc' = Loc0
          /\ m' = M0
          /\ processed' = 0
          /\ UNCHANGED transfer_stats
       \/ /\ UNCHANGED faults
          /\ LET items == Page(library.albums, loc.offset, limit)
             IN  IF items = <<>>
                 THEN /\ transfer_stats' = AlbumsStats(loc)
                      /\ pc' = ReturnTo(todo)
                      /\ loc' = Loc0
                      /\ m' = M0
                      /\ processed' = 0
                 ELSE /\ loc' = [loc EXCEPT !.items = items, !.idx = 1]
                      /\ pc' = "albums_item"
                      /\ UNCHANGED <<transfer_stats, m, processed>>
    /\ UNCHANGED <<spotify, tidal, failed_items, library, stub, tidal_playlists,
                   writes, todo, runs>>

\* lines 723-725: album similarity * 0.7 + artist similarity * 0.3, in units
\* of 1/6000
CombinedScore(album, artist_name, tidal_album) ==
    LET album_score == _calculate_artist_similarity(album.name, tidal_album.name)
        artist_score == _calculate_artist_similarity(artist_name,
                            IF tidal_album.artist # None THEN tidal_album.artist ELSE <<>>)
    IN  album_score * 7 + artist_score * 3

\* lines 719-729: the best of the returned albums
RECURSIVE BestAlbum(_, _, _, _, _, _)
BestAlbum(album, artist_name, tidal_albums, k, best_match, best_score) ==
    IF k > Len(tidal_albums) THEN [best_match |-> best_match, best_score |-> best_score]
    ELSE LET combined_score == CombinedScore(album, artist_name, tidal_albums[k])
         IN  IF combined_score > best_score
             THEN BestAlbum(album, artist_name, tidal_albums, k + 1,
                            tidal_albums[k], combined_score)
             ELSE BestAlbum(album, artist_name, tidal_albums, k + 1,
                            best_match, best_score)

\* lines 709-729 and 745-762: the search for one saved album
AlbumsItem ==
    /\ pc = "albums_item"
    /\ loc.idx <= Len(loc.items)
    /\ processed' = processed + 1
    /\ \/ /\ MayRaise
          /\ faults' = Spent
          /\ loc' = [loc EXCEPT !.failed = @ + 1, !.idx = @ + 1]
          /\ failed_items' =
                 [failed_items EXCEPT !.albums =
                     Append(@, AlbumFailure(CurrentItem, ErrorReason("search")))]
          /\ UNCHANGED pc
       \/ /\ UNCHANGED faults
          /\ \E tidal_albums \in AlbumResults(stub, CurrentItem) :
                IF tidal_albums = <<>>
                THEN /\ loc' = [loc EXCEPT !.failed = @ + 1, !.idx = @ + 1]
                     /\ failed_items' =
                            [failed_items EXCEPT !.albums =
                                Append(@, AlbumFailure(CurrentItem, <<"Not found on TIDAL">>))]
                     /\ UNCHANGED pc
                ELSE LET best == BestAlbum(CurrentItem, JoinComma(CurrentItem.artists),
                                           tidal_albums, 1, NoAlbum, 0)
                     IN  /\ loc' = [loc EXCEPT !.best_match = best.best_match,
                                               !.best_score = best.best_score]
                         /\ pc' = "albums_decide"
                         /\ UNCHANGED failed_items
    /\ UNCHANGED <<spotify, tidal, transfer_stats, library, stub, tidal_playlists,
                   writes, todo, m, runs>>

\* line 731; 0.6 in units of 1/6000
AlbumAccepted(best_match, best_score) ==
    best_match # NoAlbum /\ best_score >= 6 * SimUnit

\* lines 731-744 and 754-762
AlbumsDecide ==
    /\ pc = "albums_decide"
    /\ pc' = "albums_item"
    /\ IF AlbumAccepted(loc.best_match, loc.best_score)
       THEN \/ /\ writes' = Append(writes, Write("add_album", <<loc.best_match.id>>, TRUE))
               /\ loc' = [loc EXCEPT !.imported = @ + 1, !.idx = @ + 1]
               /\ UNCHANGED <<failed_items, faults>>
            \/ /\ MayRaise
               /\ faults' = Spent
               /\ writes' = Append(writes, Write("add_album", <<loc.best_match.id>>, FALSE))
               /\ loc' = [loc EXCEPT !.failed = @ + 1, !.idx = @ + 1]
               /\ failed_items' =
                      [failed_items EXCEPT !.albums =
                          Append(@, AlbumFailure(CurrentItem, ErrorReason("add_album")))]
       ELSE /\ loc' = [loc EXCEPT !.failed = @ + 1, !.idx = @ + 1]
            /\ failed_items' =
                   [failed_items EXCEPT !.albums =
                       Append(@, AlbumFailure(CurrentItem,
                           IF loc.best_match # NoAlbum
                           THEN <<"No good match found">>
                           ELSE <<"No match found on TIDAL">>))]
            /\ UNCHANGED <<writes, faults>>
    /\ UNCHANGED <<spotify, tidal, transfer_stats, library, stub, tidal_playlists,
                   todo, m, processed, runs>>

\* lines 764-769
AlbumsPageEnd ==
    /\ pc = "albums_item"
    /\ loc.idx > Len(loc.items)
    /\ IF Len(loc.items) < limit
       THEN /\ transfer_stats' = AlbumsStats(loc)
            /\ pc' = ReturnTo(todo)
            /\ loc' = Loc0
            /\ m' = M0
            /\ processed' = 0
       ELSE /\ loc' = [loc EXCEPT !.offset = @ + limit]
            /\ pc' = "albums_fetch"
            /\ UNCHANGED <<transfer_stats, m, processed>>
    /\ UNCHANGED <<spotify, tidal, failed_items, library, stub, faults,
                   tidal_playlists, writes, todo, runs>>

(***************************************************************************)
(* direct_transfer_playlists                                               *)
(***************************************************************************)
PlaylistTrackFailure(item, playlist_name, reason) ==
    [name |-> item.name, artist |-> JoinComma(item.artists), album |-> item.album,
     playlist |-> playlist_name, reason |-> reason]

\* lines 786-798
PlaylistsStart ==
    /\ pc = "call"
    /\ todo # <<>>
    /\ Head(todo) = "playlists"
    /\ todo' = Tail(todo)
    /\ IF ~Connected
       THEN /\ pc' = ReturnTo(Tail(todo))
            /\ UNCHANGED <<loc, processed>>
       ELSE /\ pc' = "pl_list"
            /\ loc' = Loc0
            /\ processed' = 0
    /\ UNCHANGED <<spotify, tidal, transfer_stats, failed_items, library, stub,
                   faults, tidal_playlists, writes, m, runs>>

\* lines 801-803 and 912-913: the first page of the user's playlists
PlaylistsList ==
    /\ pc = "pl_list"
    /\ \/ /\ MayRaise
          /\ faults' = Spent
          /\ pc' = ReturnTo(todo)
          /\ loc' = Loc0
          /\ m' = M0
          /\ processed' = 0
       \/ /\ UNCHANGED <<faults, m, processed>>
          /\ loc' = [loc EXCEPT !.playlists = Page(library.playlists, 0, limit),
                                !.pidx = 1]
          /\ pc' = "pl_next"
    /\ UNCHANGED <<spotify, tidal, transfer_stats, failed_items, library, stub,
                   tidal_playlists, writes, todo, runs>>

\* lines 895-897
PlaylistsStats(l) ==
    [transfer_stats EXCEPT !.playlists_created = @ + l.playlists_created,
                           !.songs_imported = @ + l.total_imported,
                           !.total_failed = @ + l.total_failed]

\* lines 805 and 895-897: the playlist loop is over
PlaylistsFinish ==
    /\ pc = "pl_next"
    /\ loc.pidx > Len(loc.playlists)
    /\ transfer_stats' = PlaylistsStats(loc)
    /\ pc' = ReturnTo(todo)
    /\ loc' = Loc0
    /\ m' = M0
    /\ processed' = 0
    /\ UNCHANGED <<spotify, tidal, failed_items, library, stub, faults,
                   tidal_playlists, writes, todo, runs>>

\* a variant of the lookup that takes names that differ in case as equal
FindPlaylistAnyCase(user_playlists, playlist_name) ==
    IF \E i \in 1..Len(user_playlists) : Lower(user_playlists[i].name) = Lower(playlist_name)
    THEN CHOOSE i \in 1..Len(user_playlists) :
             /\ Lower(user_playlists[i].name) = Lower(playlist_name)
             /\ \A j \in 1..(i - 1) : Lower(user_playlists[j].name) # Lower(playlist_name)
    ELSE 0

\* line 818: the index of the first destination playlist of that name, or 0
FindPlaylist(user_playlists, playlist_name) ==
    IF \E i \in 1..Len(user_playlists) : user_playlists[i].name = playlist_name
    THEN CHOOSE i \in 1..Len(user_playlists) :
             /\ user_playlists[i].name = playlist_name
             /\ \A j \in 1..(i - 1) : user_playlists[j].name # playlist_name
    ELSE 0

\* the locals of one playlist's transfer, lines 828-832
OpenPlaylist(l, playlist_name, tidal_playlist) ==
    [l EXCEPT !.playlist_name = playlist_name, !.tidal_playlist = tidal_playlist,
              !.imported = 0, !.failed = 0, !.batch_ids = <<>>, !.offset = 0]

\* lines 805-832 and 892-893: the next playlist is found or created
PlaylistsOpen ==
    /\ pc = "pl_next"
    /\ loc.pidx <= Len(loc.playlists)
    /\ LET playlist == loc.playlists[loc.pidx]
           found == FindPlaylist(tidal_playlists, playlist.name)
       IN  IF playlist.kind = "none"
           THEN /\ loc' = [loc EXCEPT !.pidx = @ + 1]
                /\ UNCHANGED <<pc, faults, tidal_playlists, writes, processed>>
           ELSE \/ /\ MayRaise      \* user.playlists() raises
                   /\ faults' = Spent
                   /\ loc' = [loc EXCEPT !.pidx = @ + 1]
                   /\ UNCHANGED <<pc, tidal_playlists, writes, processed>>
                \/ /\ found # 0
                   /\ loc' = OpenPlaylist(loc, playlist.name, found)
                   /\ pc' = "pl_fetch"
                   /\ processed' = 0
                   /\ UNCHANGED <<faults, tidal_playlists, writes>>
                \/ /\ found = 0
                   /\ tidal_playlists' = Append(tidal_playlists, TidalPlaylist(playlist.name, <<>>))
                   /\ writes' = Append(writes, Write("create_playlist", <<>>, TRUE))
                   /\ loc' = [OpenPlaylist(loc, playlist.name, Len(tidal_playlists) + 1)
                                 EXCEPT !.playlists_created = @ + 1]
                   /\ pc' = "pl_fetch"
                   /\ processed' = 0
                   /\ UNCHANGED faults
                \/ /\ found = 0     \* create_playlist raises
                   /\ MayRaise
                   /\ faults' = Spent
                   /\ writes' = Append(writes, Write("create_playlist", <<>>, FALSE))
                   /\ loc' = [loc EXCEPT !.pidx = @ + 1]
                   /\ UNCHANGED <<pc, tidal_playlists, processed>>
    /\ UNCHANGED <<spotify, tidal, transfer_stats, failed_items, library, stub,
                   todo, m, runs>>

\* lines 833-834 and 892-893: one page of the playlist's tracks is fetched
PlaylistsFetch ==
    /\ pc = "pl_fetch"
    /\ \/ /\ MayRaise
          /\ faults' = Spent
          /\ loc' = [loc EXCEPT !.pidx = @ + 1]
          /\ pc' = "pl_next"
       \/ /\ UNCHANGED faults
          /\ LET all == loc.playlists[loc.pidx].tracks
             IN  loc' = [loc EXCEPT !.items = Page(all, loc.offset, playlist_limit),
                                    !.idx = 1,
                                    !.more = loc.offset + playlist_limit < Len(all)]
          /\ pc' = "pl_item"
    /\ UNCHANGED <<spotify, tidal, transfer_stats, failed_items, library, stub,
                   tidal_playlists, writes, todo, m, processed, runs>>

\* lines 836-845: the next item of the page; only tracks are matched
PlaylistsItem ==
    /\ pc = "pl_item"
    /\ loc.idx <= Len(loc.items)
    /\ IF CurrentItem.kind = "track"
       THEN /\ m' = MatchStart(CurrentItem)
            /\ pc' = "pl_match"
            /\ processed' = processed + 1
            /\ UNCHANGED loc
       ELSE /\ loc' = [loc EXCEPT !.idx = @ + 1]
            /\ UNCHANGED <<m, pc, processed>>
    /\ UNCHANGED <<spotify, tidal, transfer_stats, failed_items, library, stub,
                   faults, tidal_playlists, writes, todo, runs>>

\* tidal_playlist.add(ids) on the destination playlist at index i
AddTo(pls, i, ids) == [pls EXCEPT ![i].tracks = @ \o ids]

\* a variant of the playlist loop that flushes the buffer one id early
BatchFullEarly(batch_ids) == Len(batch_ids) = batch_size - 1

\* line 853: the buffer is full
BatchFull(batch_ids) == Len(batch_ids) = batch_size

\* lines 847-877: the match is buffered, and a full buffer flushed, or the
\* track is recorded as failed
PlaylistsDecide ==
    /\ pc = "pl_match"
    /\ m.done
    /\ pc' = "pl_item"
    /\ IF Accepted(m.best_match, m.best_score)
       THEN LET batch_ids == Append(loc.batch_ids, m.best_match.id)
            IN  IF BatchFull(batch_ids)
                THEN \/ /\ writes' = Append(writes, Write("add", batch_ids, TRUE))
                        /\ tidal_playlists' = AddTo(tidal_playlists, loc.tidal_playlist, batch_ids)
                        /\ loc' = [loc EXCEPT !.batch_ids = <<>>, !.imported = @ + 1,
                                              !.idx = @ + 1]
                        /\ UNCHANGED <<failed_items, faults>>
                     \/ /\ MayRaise     \* add raises after imported += 1
                        /\ faults' = Spent
                        /\ writes' = Append(writes, Write("add", batch_ids, FALSE))
                        /\ loc' = [loc EXCEPT !.batch_ids = batch_ids, !.imported = @ + 1,
                                              !.failed = @ + 1, !.idx = @ + 1]
                        /\ failed_items' =
                               [failed_items EXCEPT !.playlist_tracks =
                                   Append(@, PlaylistTrackFailure(CurrentItem,
                                       loc.playlist_name, ErrorReason("add")))]
                        /\ UNCHANGED tidal_playlists
                ELSE /\ loc' = [loc EXCEPT !.batch_ids = batch_ids, !.imported = @ + 1,
                                           !.idx = @ + 1]
                     /\ UNCHANGED <<failed_items, faults, writes, tidal_playlists>>
       ELSE /\ loc' = [loc EXCEPT !.failed = @ + 1, !.idx = @ + 1]
            /\ failed_items' =
                   [failed_items EXCEPT !.playlist_tracks =
                       Append(@, PlaylistTrackFailure(CurrentItem, loc.playlist_name,
                                                       <<"No match found on TIDAL">>))]
            /\ UNCHANGED <<writes, faults, tidal_playlists>>
    /\ UNCHANGED <<spotify, tidal, transfer_stats, library, stub, todo, m,
                   processed, runs>>

\* lines 887-888: the playlist's counters are added to the totals
PlaylistTotals(l) ==
    [l EXCEPT !.total_imported = @ + l.imported,
              !.total_failed = @ + l.failed,
              !.pidx = @ + 1]

\* lines 879-893: the end of a page; after the last page the rest of the
\* buffer is flushed
PlaylistsPageEnd ==
    /\ pc = "pl_item"
    /\ loc.idx > Len(loc.items)
    /\ IF loc.more
       THEN /\ loc' = [loc EXCEPT !.offset = @ + playlist_limit]
            /\ pc' = "pl_fetch"
            /\ UNCHANGED <<faults, writes, tidal_playlists>>
       ELSE /\ pc' = "pl_next"
            /\ IF loc.batch_ids # <<>>
               THEN \/ /\ writes' = Append(writes, Write("add", loc.batch_ids, TRUE))
                       /\ tidal_playlists' =
                              AddTo(tidal_playlists, loc.tidal_playlist, loc.batch_ids)
                       /\ loc' = PlaylistTotals(loc)
                       /\ UNCHANGED faults
                    \/ /\ MayRaise
                       /\ faults' = Spent
                       /\ writes' = Append(writes, Write("add", loc.batch_ids, FALSE))
                       /\ loc' = [loc EXCEPT !.pidx = @ + 1]
                       /\ UNCHANGED tidal_playlists
               ELSE /\ loc' = PlaylistTotals(loc)
                    /\ UNCHANGED <<faults, writes, tidal_playlists>>
    /\ UNCHANGED <<spotify, tidal, transfer_stats, failed_items, library, stub,
                   todo, m, processed, runs>>

(***************************************************************************)
(* The menu loop and direct_transfer_everything                            *)
(***************************************************************************)
\* a variant of 'transfer everything' that runs the albums before the artists
CategoriesAlbumsFirst == <<"songs", "albums", "artists", "playlists">>

Categories == <<"songs", "artists", "albums", "playlists">>

\* lines 223-232 (option 8): each connection is made or fails
test_connections ==
    /\ pc = "menu"
    /\ spotify' \in BOOLEAN
    /\ tidal' \in BOOLEAN
    /\ UNCHANGED <<transfer_stats, failed_items, library, stub, faults,
                   tidal_playlists, writes, pc, todo, loc, m, processed, runs>>

\* lines 1015-1034 (options 2 to 5): one category is transferred
MenuTransfer(category) ==
    /\ pc = "menu"
    /\ runs < MaxRuns
    /\ runs' = runs + 1
    /\ IF ~Connected
       THEN UNCHANGED <<pc, todo>>
       ELSE /\ pc' = "call"
            /\ todo' = <<category>>
    /\ UNCHANGED <<spotify, tidal, transfer_stats, failed_items, library, stub,
                   faults, tidal_playlists, writes, loc, m, processed>>

\* lines 915-955 and 1035-1039 (option 6): after a confirmation the
\* statistics and the ledgers are reset and the four categories are run
direct_transfer_everything ==
    /\ pc = "menu"
    /\ runs < MaxRuns
    /\ runs' = runs + 1
    /\ \E confirm \in BOOLEAN :
          IF ~Connected \/ ~confirm
          THEN UNCHANGED <<pc, todo, transfer_stats, failed_items>>
          ELSE /\ transfer_stats' = ZeroStats
               /\ failed_items' = EmptyLedger
               /\ todo' = Categories
               /\ pc' = "call"
    /\ UNCHANGED <<spotify, tidal, library, stub, faults, tidal_playlists,
                   writes, loc, m, processed>>

Songs == SongsStart \/ SongsFetch \/ SongsItem \/ SongsDecide \/ SongsPageEnd

Artists == ArtistsStart \/ ArtistsFetch \/ ArtistsItem \/ ArtistsDecide \/ ArtistsPageEnd

Albums == AlbumsStart \/ AlbumsFetch \/ AlbumsItem \/ AlbumsDecide \/ AlbumsPageEnd

Playlists ==
    \/ PlaylistsStart \/ PlaylistsList \/ PlaylistsFinish \/ PlaylistsOpen
    \/ PlaylistsFetch \/ PlaylistsItem \/ PlaylistsDecide \/ PlaylistsPageEnd

Next ==
    \/ test_connections
    \/ \E category \in Range(Categories) : MenuTransfer(category)
    \/ direct_transfer_everything
    \/ Songs
    \/ Artists
    \/ Albums
    \/ Playlists
    \/ Search

\* the program, from construction
Spec == Init /\ [][Next]_vars

NextMatch == MenuTransfer("songs") \/ Songs \/ Search

\* the transfer of one liked song, for every input of the matcher
SpecMatch == InitMatch /\ [][NextMatch]_vars

NextBatch == MenuTransfer("playlists") \/ Playlists \/ Search

\* the transfer of one long playlist
SpecBatch == InitBatch /\ [][NextBatch]_vars

NextNormalize == MenuTransfer("songs") \/ Songs \/ Search

\* the transfer of one liked song, for every track name of the normalizer
SpecNormalize == InitNormalize /\ [][NextNormalize]_vars

NextSimilarity == MenuTransfer("artists") \/ Artists

\* the transfer of one followed artist, for every pair of names of the scorer
SpecSimilarity == InitSimilarity /\ [][NextSimilarity]_vars

NextRaise == MenuTransfer("songs") \/ Songs \/ Search

\* the transfer of one liked song when one or two calls raise
SpecRaise == InitRaise /\ [][NextRaise]_vars

NextPaging ==
    MenuTransfer("songs") \/ MenuTransfer("playlists") \/ Songs \/ Playlists \/ Search

\* the transfer of the liked songs or of the playlists of a long account
SpecPaging == InitPaging /\ [][NextPaging]_vars

NextQueries == MenuTransfer("songs") \/ Songs \/ Search

\* the transfer of one liked song, for every artist string of the matcher
SpecQueries == InitQueries /\ [][NextQueries]_vars

\* the matcher on one liked song, for every script of result lists, one list
\* for each query of the song: both handles are connected, one transfer is
\* left to start and no call raises
InitBest ==
    \E script \in [1..Len(MatchStart(trkHello).queries) -> SeqsUpTo(ScriptPool, MaxResults)] :
        InitWith(ScriptLibrary(script), "script", 0, TRUE, MaxRuns - 1)

NextBest == MenuTransfer("songs") \/ Songs \/ Search

\* the transfer of one liked song, for every script of result lists
SpecBest == InitBest /\ [][NextBest]_vars

\* the item loop of the liked songs or of a playlist has an item to take
ItemReady == pc \in {"songs_item", "pl_item"} /\ loc.idx <= Len(loc.items)

\* the query loop of search_tidal_track has a query to issue
QueryReady == pc \in {"songs_match", "pl_match"} /\ ~m.done

\* the statements of the category methods other than the start of a match
\* and the query loop
Statements ==
    \/ SongsStart \/ SongsFetch \/ SongsDecide \/ SongsPageEnd
    \/ Artists
    \/ Albums
    \/ PlaylistsStart \/ PlaylistsList \/ PlaylistsFinish \/ PlaylistsOpen
    \/ PlaylistsFetch \/ PlaylistsDecide \/ PlaylistsPageEnd

\* the program, from construction, when a category method that was called
\* keeps running until it returns: the interpreter runs the next statement
\* of a call; only the user at the menu may stop. The start of a match and
\* the query loop are enabled exactly when ItemReady and QueryReady hold, so
\* their weak fairness is written with these conditions
SpecLive ==
    /\ Init /\ [][Next]_vars
    /\ WF_vars(Statements)
    /\ ([]<>(~ItemReady) \/ []<><<SongsItem \/ PlaylistsItem>>_vars)
    /\ ([]<>(~QueryReady) \/ []<><<Search>>_vars)

(***************************************************************************)
(* Properties                                                              *)
(***************************************************************************)
Last(s) == s[Len(s)]

\* this step issues one more write call, of operation op
NewWrite(op) == Len(writes') = Len(writes) + 1 /\ Last(writes').op = op

\* the number of FailureRecords in the four ledgers
LedgerSize ==
    Len(failed_items.songs) + Len(failed_items.artists)
        + Len(failed_items.albums) + Len(failed_items.playlist_tracks)

\* C1: a write to the destination (a favourite track, artist or album, or a
\* track id put into the buffer of a playlist) is issued for an item only if
\* the best candidate found for that item scores at least the threshold of
\* its category: 0.5 for tracks, 0.7 for artists, 0.6 for albums.
C1_WriteOnlyAtThreshold ==
    [][ /\ NewWrite("add_track") =>
              /\ m.best_match # NoTrack
              /\ m.best_score >= Tenths(5)
              /\ Last(writes').ids = <<m.best_match.id>>
        /\ (loc'.batch_ids # loc.batch_ids /\ loc'.batch_ids # <<>>) =>
              /\ pc = "pl_match"
              /\ m.best_match # NoTrack
              /\ m.best_score >= Tenths(5)
              /\ loc'.batch_ids = Append(loc.batch_ids, m.best_match.id)
        /\ NewWrite("add") =>
              IF pc = "pl_match"
              THEN /\ m.best_match # NoTrack
                   /\ m.best_score >= Tenths(5)
                   /\ Last(writes').ids = Append(loc.batch_ids, m.best_match.id)
              ELSE Last(writes').ids = loc.batch_ids
        /\ NewWrite("add_artist") =>
              /\ loc.best_match # NoArtist
              /\ loc.best_score >= SimTenths(7)
              /\ Last(writes').ids = <<loc.best_match.id>>
        /\ NewWrite("add_album") =>
              /\ loc.best_match # NoAlbum
              /\ loc.best_score >= 6 * SimUnit
              /\ Last(writes').ids = <<loc.best_match.id>>
      ]_vars

\* a liked song has just been written whose best candidate scores between
\* 0.5 and 0.8
C1_Witness ==
    /\ pc = "songs_item"
    /\ writes # <<>>
    /\ Last(writes) = Write("add_track", <<m.best_match.id>>, TRUE)
    /\ m.best_score >= Tenths(5)
    /\ m.best_score < Tenths(8)
    /\ loc.imported = 1

\* C2: in every category, whenever the item loop is between two items, the
\* imported count plus the failed count is the number of items processed,
\* whatever the matches and the write calls did.
C2_CountersMatchProcessed ==
    pc \in {"songs_item", "artists_item", "albums_item", "pl_item"}
        => loc.imported + loc.failed = processed

\* C3: whenever the program is back at the menu, total_failed of the
\* statistics is the number of FailureRecords in the four ledgers, also after
\* a transfer that an exception abandoned.
C3_FailedEqualsLedger ==
    pc = "menu" => transfer_stats.total_failed = LedgerSize

\* the step records exactly one failure in the ledger named, counts it as
\* failed, not as imported, and writes nothing to the destination
OneFailure(ledger) ==
    /\ Len(failed_items'[ledger]) = Len(failed_items[ledger]) + 1
    /\ SubSeq(failed_items'[ledger], 1, Len(failed_items[ledger])) = failed_items[ledger]
    /\ \A other \in DOMAIN failed_items \ {ledger} :
           failed_items'[other] = failed_items[other]
    /\ Last(failed_items'[ledger]).name = CurrentItem.name
    /\ loc'.failed = loc.failed + 1
    /\ loc'.imported = loc.imported
    /\ loc'.batch_ids = loc.batch_ids
    /\ writes' = writes
    /\ tidal_playlists' = tidal_playlists

\* search_tidal_track has returned None
TrackRejected == m.done /\ ~(m.best_match # NoTrack /\ m.best_score >= Tenths(5))

\* C4: for every processed item whose match is absent or rejected, in any
\* category, exactly one FailureRecord is appended to the ledger of the
\* category, the failed count grows by exactly 1, the imported count is
\* unchanged and no write is issued; the record of a liked song has the
\* reason 'No match found on TIDAL'.
C4_RejectedIsOneFailure ==
    [][ /\ (pc = "songs_match" /\ TrackRejected) =>
              /\ OneFailure("songs")
              /\ Last(failed_items'.songs).reason = <<"No match found on TIDAL">>
        /\ (pc = "pl_match" /\ TrackRejected) => OneFailure("playlist_tracks")
        /\ (pc = "artists_decide"
               /\ ~(loc.best_match # NoArtist /\ loc.best_score >= SimTenths(7))) =>
              OneFailure("artists")
        /\ (pc = "artists_item" /\ pc' = "artists_item" /\ loc'.idx = loc.idx + 1) =>
              OneFailure("artists")
        /\ (pc = "albums_decide"
               /\ ~(loc.best_match # NoAlbum /\ loc.best_score >= 6 * SimUnit)) =>
              OneFailure("albums")
        /\ (pc = "albums_item" /\ pc' = "albums_item" /\ loc'.idx = loc.idx + 1) =>
              OneFailure("albums")
      ]_vars

\* a liked song whose searches all returned no candidate has just been
\* recorded as failed
C4_Witness ==
    /\ stub = "empty"
    /\ pc = "songs_item"
    /\ Len(m.calls) = Len(m.queries)
    /\ Len(m.calls) >= 3
    /\ Len(failed_items.songs) = 1
    /\ Last(failed_items.songs).reason = <<"No match found on TIDAL">>
    /\ loc.failed = 1
    /\ loc.imported = 0
    /\ writes = <<>>

\* C5: one call of search_tidal_track issues at most 4 search calls, and
\* issues none once the running best score is 0.8 or more.
C5_SearchCallsBounded ==
    [][ Len(m'.calls) > Len(m.calls) =>
            /\ m.best_score < Tenths(8)
            /\ Len(m'.calls) = Len(m.calls) + 1
            /\ Len(m'.calls) <= 4
      ]_vars

\* of four queries, the second reached a score of 0.8 and the search stopped
C5_Witness ==
    /\ pc = "songs_match"
    /\ m.done
    /\ Len(m.queries) = 4
    /\ Len(m.calls) = 2
    /\ m.best_score >= Tenths(8)

\* C6: when the track name is empty or normalizes to the empty string,
\* search_tidal_track issues no search call and returns None, whatever the
\* artist, the album and the duration are.
C6_EmptyNameNoSearch ==
    (pc = "songs_match"
        /\ (CurrentItem.name = <<>> \/ _normalize_search_text(CurrentItem.name) = <<>>))
    => /\ m.calls = <<>>
       /\ m.done
       /\ m.best_match = NoTrack

\* the matcher was called with a name that is only a bracketed remark, and
\* with an artist, an album and a duration
C6_Witness ==
    /\ pc = "songs_match"
    /\ CurrentItem.name = sLiveOnly
    /\ CurrentItem.artists = <<sAdele, sBob>>
    /\ CurrentItem.album = s25
    /\ CurrentItem.duration_ms = 295000
    /\ m.done
    /\ m.calls = <<>>

\* C7: the confidence of every match search_tidal_track returns is in [0, 1].
C7_ConfidenceInUnitInterval ==
    (m.done /\ m.best_match # NoTrack /\ m.best_score >= Tenths(5))
        => (m.best_score >= 0 /\ m.best_score <= Tenths(10))

\* C8: when the search returns the single candidate that has the artist and
\* the album of the source track, a duration within 3000 ms of it and its
\* name, search_tidal_track returns that candidate with confidence 1.0.
C8_ExactCandidateScoresOne ==
    (/\ pc \in {"songs_match", "pl_match"}
     /\ stub = "exact"
     /\ m.done
     /\ m.best_match = ExactCandidate(CurrentItem)
     /\ m.best_match.artist = m.artist_name
     /\ m.best_match.album = m.album_name
     /\ Abs(m.duration_ms - m.best_match.duration * 1000) <= 3000
     /\ Contains(m.best_match.name, CurrentItem.name))
    => m.best_score = Tenths(10)

\* the quoted query of the liked song Hello by Adele
HelloQuery == <<"\"","H","e","l","l","o","\""," ","\"","A","d","e","l","e","\"">>

\* C9: when the first, quoted, query returns the candidate Hello / Adele /
\* 25 / 295 s for the liked song Hello / Adele / 25 / 295000 ms, the matcher
\* issues exactly one search call and returns that candidate with a
\* confidence of at least 0.9 and the quoted query as query_used; the
\* orchestrator then writes the track and, the write returning, appends no
\* FailureRecord.
C9_ExactMatchFirstQuery ==
    [][ (pc = "songs_match" /\ stub = "exact" /\ CurrentItem = trkHello) =>
          /\ (m.calls = <<>> /\ m'.calls # <<>> /\ faults' = faults) =>
                /\ m'.done
                /\ m'.calls = <<HelloQuery>>
                /\ m'.query_used = HelloQuery
                /\ m'.best_match = TidalTrack(1, sHello, sAdele, s25, 295)
                /\ m'.best_score >= Tenths(9)
          /\ (m.done /\ m.calls = <<HelloQuery>> /\ m.best_match # NoTrack) =>
                /\ NewWrite("add_track")
                /\ Last(writes').ids = <<m.best_match.id>>
                /\ Last(writes').ok =>
                       /\ failed_items' = failed_items
                       /\ loc'.imported = loc.imported + 1
                       /\ loc'.failed = loc.failed
      ]_vars

\* the liked song Hello was matched by one search call and written
C9_Witness ==
    /\ stub = "exact"
    /\ pc = "songs_item"
    /\ loc.items = <<trkHello>>
    /\ m.calls = <<HelloQuery>>
    /\ m.query_used = HelloQuery
    /\ m.best_score >= Tenths(9)
    /\ writes = <<Write("add_track", <<1>>, TRUE)>>
    /\ failed_items = EmptyLedger
    /\ loc.imported = 1

\* the add calls issued to destination playlists, in order
AddCalls == SelectSeq(writes, LAMBDA w : w.op = "add")

\* the ids each add call carried
Batches == [i \in 1..Len(AddCalls) |-> AddCalls[i].ids]

RECURSIVE Flatten(_)
Flatten(seqs) == IF seqs = <<>> THEN <<>> ELSE Head(seqs) \o Flatten(Tail(seqs))

AllWritesOk == \A i \in 1..Len(writes) : writes[i].ok

\* the tracks of the playlist being transferred
BatchTracks == library.playlists[1].tracks

\* the ids of the first n tracks, in source order
FirstIds(n) == [k \in 1..n |-> BatchTracks[k].id]

\* ceil(n / 50)
BatchCount(n) == (n + 49) \div 50

\* the i-th of the batches n ids are to arrive in
ExpectedBatch(n, i) ==
    [j \in 1..(IF 50 * i <= n THEN 50 ELSE n - 50 * (i - 1)) |->
        BatchTracks[50 * (i - 1) + j].id]

\* the transfer of the playlist ran to its end and matched every track
BatchRunComplete ==
    /\ pc = "menu"
    /\ runs = MaxRuns
    /\ transfer_stats.songs_imported = Len(BatchTracks)

C10_State ==
    /\ (AllWritesOk /\ pc \in {"pl_fetch", "pl_item", "pl_match"} /\ loc.failed = 0) =>
          /\ Flatten(Batches) \o loc.batch_ids = FirstIds(loc.imported)
          /\ \A i \in 1..Len(Batches) : Len(Batches[i]) = 50
          /\ Len(loc.batch_ids) < 50
    /\ (AllWritesOk /\ BatchRunComplete) =>
          /\ Len(Batches) = BatchCount(Len(BatchTracks))
          /\ \A i \in 1..Len(Batches) : Batches[i] = ExpectedBatch(Len(BatchTracks), i)
          /\ Flatten(Batches) = FirstIds(Len(BatchTracks))

C10_Step ==
    (NewWrite("add") /\ Len(Last(writes').ids) < 50) =>
        /\ pc = "pl_item"
        /\ loc.idx > Len(loc.items)
        /\ ~loc.more
        /\ pc' = "pl_next"

\* C10: a playlist of N matched tracks whose write calls all return receives
\* exactly ceil(N / 50) add calls, each but the last of exactly 50 ids and
\* the last of the rest, that together carry the matched ids in source
\* order; the rest is flushed only once the pages of the playlist's tracks
\* are all read.
C10_BatchesOfFifty == [](C10_State) /\ [][C10_Step]_vars

\* 125 matched tracks have arrived in batches of 50, 50 and 25
C10_Witness ==
    /\ BatchRunComplete
    /\ AllWritesOk
    /\ Len(BatchTracks) = 125
    /\ [i \in 1..Len(Batches) |-> Len(Batches[i])] = <<50, 50, 25>>
    /\ tidal_playlists[1].tracks = FirstIds(125)

\* C11: every add call to a destination playlist carries at least 1 and at
\* most 50 track ids, whatever the matches and the earlier add calls did.
C11_AddCallsBounded ==
    \A i \in 1..Len(writes) :
        writes[i].op = "add" =>
            (Len(writes[i].ids) >= 1 /\ Len(writes[i].ids) <= 50)

\* the first step of the category method named
FirstStepOf(category) ==
    IF category = "songs" THEN "songs_fetch"
    ELSE IF category = "artists" THEN "artists_fetch"
    ELSE IF category = "albums" THEN "albums_fetch"
    ELSE "pl_list"

\* a confirmed 'transfer everything' resets the statistics and the ledgers;
\* the category methods are then called one after the other, each once, in
\* the order songs, artists, albums, playlists, whatever way the one before
\* returned
C12_Step ==
    /\ (pc = "menu" /\ pc' = "call" /\ Len(todo') > 1) =>
          /\ todo' = <<"songs", "artists", "albums", "playlists">>
          /\ transfer_stats' = ZeroStats
          /\ failed_items' = EmptyLedger
          /\ writes' = writes
    /\ pc = "call" =>
          /\ todo # <<>>
          /\ todo' = Tail(todo)
          /\ pc' = FirstStepOf(Head(todo))
    /\ pc \notin {"menu", "call"} =>
          /\ todo' = todo
          /\ pc' \in {"menu", "call"} => pc' = (IF todo = <<>> THEN "menu" ELSE "call")

\* C12: a confirmed 'transfer everything' with both services connected
\* resets the five counters and the four ledgers, then runs the songs, the
\* artists, the albums and the playlists transfer, each exactly once and in
\* that order; each later category starts, and the run comes back to the
\* menu, even when an earlier category failed or was abandoned.
C12_EverythingRunsAllInOrder ==
    /\ [][C12_Step]_vars
    /\ (pc = "call" /\ Len(todo) = 4) ~> (pc = "menu" /\ todo = <<>>)

\* 'transfer everything' is over: the fetch of the liked songs raised, and
\* the artist, the album and the playlist track were still transferred
C12_Witness ==
    /\ pc = "menu"
    /\ todo = <<>>
    /\ stub = "exact"
    /\ faults = 0
    /\ [i \in 1..Len(writes) |-> writes[i].op] = <<"add_artist", "add_album", "add">>
    /\ AllWritesOk
    /\ transfer_stats.artists_imported = 1
    /\ transfer_stats.albums_imported = 1
    /\ transfer_stats.songs_imported = 1
    /\ failed_items.songs = <<>>

\* the ledger of the category whose item loop is at position p
LedgerAt(p) ==
    IF p = "songs_match" THEN "songs"
    ELSE IF p \in {"artists_item", "artists_decide"} THEN "artists"
    ELSE IF p \in {"albums_item", "albums_decide"} THEN "albums"
    ELSE "playlist_tracks"

\* the head of the item loop of the category whose item loop is at position p
LoopAt(p) ==
    IF p = "songs_match" THEN "songs_item"
    ELSE IF p \in {"artists_item", "artists_decide"} THEN "artists_item"
    ELSE IF p \in {"albums_item", "albums_decide"} THEN "albums_item"
    ELSE "pl_item"

\* this step is the search or the destination write of one item raising:
\* the step is inside the try block of one item (for a track, after the
\* matcher has returned) and a call fails
ItemRaises ==
    /\ \/ pc \in {"artists_item", "artists_decide", "albums_item", "albums_decide"}
       \/ pc \in {"songs_match", "pl_match"} /\ m.done
    /\ \/ faults' # faults
       \/ Len(writes') = Len(writes) + 1 /\ ~Last(writes').ok

\* this step appends exactly one FailureRecord, of the item the loop is at,
\* to the ledger named, and counts it as failed
OneRecord(ledger) ==
    /\ Len(failed_items'[ledger]) = Len(failed_items[ledger]) + 1
    /\ SubSeq(failed_items'[ledger], 1, Len(failed_items[ledger])) = failed_items[ledger]
    /\ \A other \in DOMAIN failed_items \ {ledger} :
           failed_items'[other] = failed_items[other]
    /\ Last(failed_items'[ledger]).name = CurrentItem.name
    /\ loc'.failed = loc.failed + 1

\* C13: in each category, when the matching or the destination write of one
\* item raises, one FailureRecord whose reason carries the error text is
\* appended to the ledger of the category, failed grows by one, and the item
\* loop goes on with the next item: the exception does not end the loop.
C13_ItemErrorIsRecorded ==
    [][ItemRaises =>
          /\ OneRecord(LedgerAt(pc))
          /\ Len(Last(failed_items'[LedgerAt(pc)]).reason) = 2
          /\ Last(failed_items'[LedgerAt(pc)]).reason[1] = "Error: "
          /\ pc' = LoopAt(pc)
          /\ loc'.items = loc.items
          /\ loc'.idx = loc.idx + 1]_vars

\* the write of the first liked song raised and the loop went on: the last
\* liked song was processed after it and the method returned
C13_Witness ==
    /\ pc = "menu"
    /\ Len(failed_items.songs) = 2
    /\ failed_items.songs[1].reason = <<"Error: ", "add_track">>
    /\ failed_items.songs[1].name = sHello
    /\ failed_items.songs[2].name = sLiveOnly
    /\ transfer_stats.total_failed = 2

\* the loop of direct_transfer_songs over the pages has just ended
SongsLoopOver ==
    \/ pc = "songs_fetch" /\ Page(library.songs, loc.offset, limit) = <<>>
    \/ pc = "songs_item" /\ loc.idx > Len(loc.items) /\ Len(loc.items) < limit

\* the loop of direct_transfer_playlists over the playlists has just ended
PlaylistsLoopOver == pc = "pl_next" /\ loc.pidx > Len(loc.playlists)

\* the ids of the tracks added to the favourites, in the order of the calls
FavouriteIds == Flatten([i \in 1..Len(writes) |->
                            IF writes[i].op = "add_track" THEN writes[i].ids ELSE <<>>])

\* C14: for each category the source catalog is paginated to exhaustion: for
\* any finite source list every liked song and every playlist is processed
\* exactly once, in the order the source returns it, when the loop of the
\* category ends. (In an account where every track has an exact candidate
\* and the destination has no playlist, a processed song is one add_track
\* call and a processed playlist is one created playlist.)
C14_EveryItemOnceInOrder ==
    /\ SongsLoopOver =>
          FavouriteIds = [k \in 1..Len(library.songs) |-> library.songs[k].id]
    /\ PlaylistsLoopOver =>
          [i \in 1..Len(tidal_playlists) |-> tidal_playlists[i].name]
              = [k \in 1..Len(library.playlists) |-> library.playlists[k].name]

\* the names of the destination playlists, in order
DestinationNames == [i \in 1..Len(tidal_playlists) |-> tidal_playlists[i].name]

\* this step counts one more created playlist
CountsCreated ==
    IF pc' \in {"menu", "call"}
    THEN transfer_stats'.playlists_created = transfer_stats.playlists_created + 1
    ELSE loc'.playlists_created = loc.playlists_created + 1

\* this step leaves the number of created playlists as it is, or hands the
\* local count to the statistics when the method returns
KeepsCreated ==
    IF pc \in {"pl_list", "pl_next", "pl_fetch", "pl_item", "pl_match"}
       /\ pc' \in {"menu", "call"}
    THEN transfer_stats'.playlists_created
             = transfer_stats.playlists_created + loc.playlists_created
    ELSE /\ pc' \notin {"menu", "call"} => loc'.playlists_created = loc.playlists_created
         /\ pc \notin {"menu"} =>
                transfer_stats'.playlists_created = transfer_stats.playlists_created

\* the step that finds or creates the destination playlist of the source
\* playlist the loop is at
C15_Step ==
    LET name == loc.playlists[loc.pidx].name
        same == {i \in 1..Len(tidal_playlists) : tidal_playlists[i].name = name}
    IN  /\ (pc = "pl_next" /\ pc' = "pl_fetch" /\ same # {}) =>
              /\ loc'.tidal_playlist \in same
              /\ \A i \in same : loc'.tidal_playlist <= i
              /\ writes' = writes
              /\ tidal_playlists' = tidal_playlists
        /\ (pc = "pl_next" /\ pc' = "pl_fetch" /\ same = {}) =>
              /\ NewWrite("create_playlist")
              /\ Last(writes').ok
              /\ tidal_playlists' = Append(tidal_playlists, TidalPlaylist(name, <<>>))
              /\ loc'.tidal_playlist = Len(tidal_playlists')
        /\ NewWrite("create_playlist") =>
              /\ pc = "pl_next"
              /\ name \notin Range(DestinationNames)
        /\ IF NewWrite("create_playlist") /\ Last(writes').ok
           THEN CountsCreated
           ELSE KeepsCreated

C16_NormalizeIdempotent ==
    pc = "songs_match" => _normalize_search_text(m.track_clean) = m.track_clean

\* the whitespace-separated words of text that are noise words, whatever
\* their case
NoiseWordsIn(text) ==
    {i \in 1..Len(Split(text)) : Lower(Split(text)[i]) \in Range(noise_words)}

\* text holds a span that opens with open and closes with close
HasSpan(text, open, close) ==
    \E i \in 1..Len(text) : \E j \in (i + 1)..Len(text) :
        text[i] = open /\ text[j] = close

\* C17: _normalize_search_text removes the bracketed and the parenthesised
\* spans and every whole-word occurrence of a noise word (feat., ft.,
\* featuring, with, vs., vs, &), so that the normalized form of
\* "Song (Live) [Remaster] feat. Bob" is "Song".
C17_NoiseWordsRemoved ==
    pc = "songs_match" =>
        /\ ~HasSpan(m.track_clean, "(", ")")
        /\ ~HasSpan(m.track_clean, "[", "]")
        /\ NoiseWordsIn(m.track_clean) = {}
        /\ CurrentItem.name = sSongLiveRemasterFeatBob =>
               m.track_clean = <<"S", "o", "n", "g">>

\* the name of the followed artist and the name of the artist found for it
FollowedName == library.artists[1].name

FoundName == library.tidal_artists[1].name

\* s consists of whitespace
AllSpace(s) == \A i \in 1..Len(s) : IsSpace(s[i])

\* x and y are the same text up to the case of the letters, each between a
\* leading and a trailing run of whitespace
SameButCaseAndMargins(x, y) ==
    \E i \in 0..Len(x) : \E j \in i..Len(x) :
    \E k \in 0..Len(y) : \E l \in k..Len(y) :
        /\ AllSpace(SubSeq(x, 1, i)) /\ AllSpace(SubSeq(x, j + 1, Len(x)))
        /\ AllSpace(SubSeq(y, 1, k)) /\ AllSpace(SubSeq(y, l + 1, Len(y)))
        /\ Lower(SubSeq(x, i + 1, j)) = Lower(SubSeq(y, k + 1, l))

\* _calculate_artist_similarity(x, y) returns 1.0 for every non-empty x and
\* every y that differs from x only in the case of letters or in leading or
\* trailing whitespace
C18_AsStated ==
    (pc = "artists_decide" /\ FollowedName # <<>>
        /\ SameButCaseAndMargins(FollowedName, FoundName)) =>
        loc.best_score = SimUnit

\* C18: _calculate_artist_similarity(x, y) returns 1.0 for every non-empty x
\* and every non-empty y that differs from x only in the case of letters or
\* in leading or trailing whitespace; in particular similarity(x, x) = 1.0.
C18_SameNameScoresOne ==
    (pc = "artists_decide" /\ FollowedName # <<>> /\ FoundName # <<>>
        /\ SameButCaseAndMargins(FollowedName, FoundName)) =>
        loc.best_score = SimUnit

\* " b" was scored against "B " and the score is 1.0
C18_Witness ==
    /\ pc = "artists_decide"
    /\ FollowedName = <<" ", "b">>
    /\ FoundName = <<"B", " ">>
    /\ loc.best_score = SimUnit
    /\ loc.best_match = TidalArtist(2, <<"B", " ">>)

\* neither of the lower-cased, trimmed names equals or contains the other,
\* their primary artists differ and they share no word
Unrelated(x, y) ==
    LET a1 == Strip(Lower(x))
        a2 == Strip(Lower(y))
    IN  /\ a1 # a2
        /\ ~Contains(a1, a2)
        /\ ~Contains(a2, a1)
        /\ _extract_primary_artist(a1) # _extract_primary_artist(a2)
        /\ Range(Split(a1)) \cap Range(Split(a2)) = {}

QueryRaises ==
    /\ pc \in {"songs_match", "pl_match"}
    /\ ~m.done
    /\ faults' # faults

\* the queries issued so far are the first queries of the list, in order, and
\* a match that ended without a high-confidence candidate issued them all
C20_State ==
    pc \in {"songs_match", "pl_match"} =>
        /\ Len(m.calls) <= Len(m.queries)
        /\ m.calls = SubSeq(m.queries, 1, Len(m.calls))
        /\ (m.done /\ m.best_score < Tenths(8)) => m.calls = m.queries

\* a query that raises is skipped: the candidate, the score and the query
\* found before are kept and the loop goes on with the next query, if any
C20_Step ==
    QueryRaises =>
        /\ m'.best_match = m.best_match
        /\ m'.best_score = m.best_score
        /\ m'.query_used = m.query_used
        /\ m'.queries = m.queries
        /\ m'.calls = Append(m.calls, m.queries[m.qi])
        /\ m'.qi = m.qi + 1
        /\ m'.done = (m.qi = Len(m.queries))
        /\ pc' = pc

\* C20: within one call of search_tidal_track, when the search call of one
\* query raises, that query is skipped and every remaining query is still
\* issued, in order, unless a high-confidence candidate ends the loop; the
\* best candidate and the score found by earlier queries are kept and can
\* still be returned.
C20_RaisingQuerySkipped == [](C20_State) /\ [][C20_Step]_vars

\* the first query found the live version, the two others raised, and the
\* live version was returned and added to the favourites
C20_Witness ==
    /\ pc = "songs_item"
    /\ faults = 0
    /\ library.songs = <<trkHello>>
    /\ Len(m.calls) = 3
    /\ m.best_match = cLive
    /\ m.query_used = m.queries[1]
    /\ writes = <<Write("add_track", <<cLive.id>>, TRUE)>>

\* the number of queries built from the primary artist
PrimaryQueries == IF m.primary_artist # <<>> THEN 2 ELSE 0

\* the query built from the full artist string is present
FullQuery == m.artist_clean # <<>> /\ m.artist_clean # m.primary_artist

\* C21: search_tidal_track issues its queries in the fixed order: quoted
\* "<name>" "<primaryArtist>", then <name> <primaryArtist> (both only when
\* the primary artist is non-empty), then <name> <artist> (only when the
\* normalized full artist string is non-empty and differs from the primary
\* artist), then <name> alone, which is always the last query; no query is
\* built from an empty component.
C21_QueriesInFixedOrder ==
    (pc = "songs_match" /\ m.track_clean # <<>>) =>
        LET name == m.track_clean
            queries == m.queries
        IN  /\ Len(queries) = PrimaryQueries + (IF FullQuery THEN 1 ELSE 0) + 1
            /\ queries[Len(queries)] = name
            /\ m.primary_artist # <<>> =>
                   /\ queries[1] = <<"\"">> \o name \o <<"\"", " ", "\"">>
                                       \o m.primary_artist \o <<"\"">>
                   /\ queries[2] = name \o <<" ">> \o m.primary_artist
            /\ FullQuery =>
                   queries[PrimaryQueries + 1] = name \o <<" ">> \o m.artist_clean
            /\ \A i \in 1..Len(queries) :
                   /\ queries[i] # <<>>
                   /\ queries[i][Len(queries[i])] # " "
                   /\ ~Contains(queries[i], <<"\"", "\"">>)
            /\ m.calls = SubSeq(queries, 1, Len(m.calls))

\* the four queries of "Hello" by "A, B & C" were issued in order
C21_Witness ==
    /\ pc = "songs_match"
    /\ CurrentItem.name = sHello
    /\ CurrentItem.artists = <<sABC>>
    /\ m.primary_artist = <<"A">>
    /\ m.calls = << Quoted(sHello) \o <<" ">> \o Quoted(<<"A">>),
                    sHello \o <<" ", "A">>,
                    sHello \o <<" ">> \o sABC,
                    sHello >>
    /\ m.done

\* the result lists of the queries issued so far, in issue order
Returned == SubSeq(library.tidal_tracks, 1, Len(m.calls))

\* the positions <<query, rank>> of the candidates returned so far
Candidates == {<<i, j>> \in (1..Len(Returned)) \X (1..MaxResults) : j <= Len(Returned[i])}

\* the score of the candidate at position c
ScoreAt(c) ==
    ScoreTrack(m.track_clean, m.artist_name, m.album_name, m.duration_ms,
               Returned[c[1]][c[2]])

\* position c comes before position d in issue order
IssuedBefore(c, d) == c[1] < d[1] \/ (c[1] = d[1] /\ c[2] < d[2])

\* C22: when no search call raises, the confidence of search_tidal_track is
\* the maximum score over all candidates returned by all queries that were
\* issued, the candidate is the first one in issue order that attains this
\* maximum, and query_used is the query whose result list held it.
C22_BestOverAllQueries ==
    (pc = "songs_match" /\ \E c \in Candidates : ScoreAt(c) > 0) =>
        \E c \in Candidates :
            /\ \A d \in Candidates : ScoreAt(d) <= ScoreAt(c)
            /\ \A d \in Candidates : IssuedBefore(d, c) => ScoreAt(d) < ScoreAt(c)
            /\ m.best_score = ScoreAt(c)
            /\ m.best_match = Returned[c[1]][c[2]]
            /\ m.query_used = m.queries[c[1]]

\* the first query returned the cover, the second the live version and then
\* its other release, the third the live version again: the live version of
\* the second query is returned
C22_Witness ==
    /\ pc = "songs_match"
    /\ m.done
    /\ library.tidal_tracks = << <<cCover>>, <<cLive, cLiveAgain>>, <<cLiveAgain, cLive>> >>
    /\ Len(m.calls) = 3
    /\ m.best_match = cLive
    /\ m.best_score = Tenths(8) - 1
    /\ m.query_used = m.queries[2]

\* the separators in the order of their priority: ',', ';', '&', ' and ',
\* ' x ', ' X '
ByPriority ==
    << <<",">>, <<";">>, <<"&">>, <<" ", "a", "n", "d", " ">>,
       <<" ", "x", " ">>, <<" ", "X", " ">> >>

\* the separators present in s, by their priority
Present(s) == {k \in 1..Len(ByPriority) : Contains(s, ByPriority[k])}

\* r is the trimmed text of s before the first occurrence of sep
TrimmedBefore(s, sep, r) ==
    \E i \in 1..Len(s) :
        /\ OccursAt(s, sep, i)
        /\ \A j \in 1..(i - 1) : ~OccursAt(s, sep, j)
        /\ r = Strip(SubSeq(s, 1, i - 1))

\* r is the primary artist of s
IsPrimaryOf(s, r) ==
    IF s = <<>> THEN r = <<>>
    ELSE IF Present(s) = {} THEN r = Strip(s)
    ELSE \E k \in Present(s) :
             /\ \A j \in Present(s) : k <= j
             /\ TrimmedBefore(s, ByPriority[k], r)

\* C23: _extract_primary_artist returns the trimmed text before the first
\* occurrence of the highest-priority separator present in the string,
\* trying the separators in the order ',', ';', '&', ' and ', ' x ', ' X ';
\* it returns the trimmed input when no separator is present and the empty
\* string for empty input ("A, B & C" gives "A", "Solo" gives "Solo").  The
\* matcher applies it to the normalized artist string; the artist string as
\* the source gives it, which may begin or end with whitespace, is read
\* here as well.
C23_PrimaryArtist ==
    pc = "songs_match" =>
        /\ IsPrimaryOf(m.artist_clean, m.primary_artist)
        /\ IsPrimaryOf(m.artist_name, _extract_primary_artist(m.artist_name))
        /\ m.artist_clean = sABC => m.primary_artist = <<"A">>
        /\ m.artist_clean = sSolo => m.primary_artist = sSolo

\* the primary artist of "a & b, c" is "a & b": the comma comes before the
\* ampersand in priority, though after it in the string
C23_Witness ==
    /\ pc = "songs_match"
    /\ m.track_clean = sHello
    /\ m.artist_clean = sAAmpBCommaC
    /\ m.primary_artist = <<"a", " ", "&", " ", "b">>
    /\ m.queries[2] = m.track_clean \o <<" ", "a", " ", "&", " ", "b">>

\* C24: _calculate_artist_similarity is symmetric: the score of the followed
\* artist against the artist found is the score of the artist found against
\* the followed artist, for every pair of names.
C24_SimilaritySymmetric ==
    pc = "artists_decide" =>
        loc.best_score = _calculate_artist_similarity(FoundName, FollowedName)

\* "a, b" was scored against "a;c": the primary artists agree and the score
\* is 0.85, as it is for "a;c" against "a, b"
C24_Witness ==
    /\ pc = "artists_decide"
    /\ FollowedName = sACommaB
    /\ FoundName = sASemicolonC
    /\ loc.best_score = (85 * SimUnit) \div 100
    /\ _calculate_artist_similarity(sASemicolonC, sACommaB) = (85 * SimUnit) \div 100

\* the menu starts a category transfer or 'transfer everything'
TransferChosen == pc = "menu" /\ runs' # runs

\* no handle is read or written and nothing is counted or recorded
NothingDone ==
    /\ pc' = "menu"
    /\ UNCHANGED <<transfer_stats, failed_items, tidal_playlists, writes, faults,
                   todo, loc, m, processed, spotify, tidal>>

\* C25: when the source handle or the destination handle is not connected,
\* each of the four category transfers and 'transfer everything' returns
\* without any source read, destination search or destination write, and
\* leaves the counters and the failure ledgers as they are ('transfer
\* everything' does not reset them); the statements of a category transfer
\* run only with both handles connected.
C25_NotConnectedDoesNothing ==
    /\ [](pc # "menu" => (spotify /\ tidal))
    /\ [][(TransferChosen /\ ~(spotify /\ tidal)) => NothingDone]_vars

\* after a transfer of the liked songs that found nothing and one more
\* choice at the menu, the destination handle is not connected and the
\* ledger and the counter of the songs transfer are as it left them
C25_Witness ==
    /\ pc = "menu"
    /\ spotify /\ ~tidal
    /\ runs = MaxRuns
    /\ stub = "empty"
    /\ Len(failed_items.songs) = Len(library.songs)
    /\ failed_items.songs # <<>>
    /\ failed_items.artists = <<>>
    /\ transfer_stats # ZeroStats
    /\ writes = <<>>

====
